---- MODULE Spec2Model ----
(***************************************************************************)
(* Real-time chat and notification core of connectify-backend:             *)
(*   messaging/consumers.py   ChatConsumer (one per chat WebSocket)         *)
(*   messaging/models.py      Chat, Message, MessageStatus and signals      *)
(*   messaging/views.py       HTTP chat / message / status endpoints        *)
(*   messaging/serializers.py ChatCreateSerializer, MessageSerializer       *)
(*   notifications/utils.py   create_notification and the typed creators    *)
(*   notifications/consumers.py NotificationConsumer                        *)
(* Every handler is one atomic action.  The variables `frames`,            *)
(* `published` and `last` describe the most recent handler only: the       *)
(* frames it wrote to each socket, the events it handed to the channel     *)
(* layer, and the request together with what it returned.                  *)
(***************************************************************************)
EXTENDS Integers, Sequences, FiniteSets, TLC

\* ------------------------------------------------------------------ bounds
NumUsers == 3
NumConns == 2
MaxMessages == 2
MaxClock == 3
MaxChats == 3
MaxNotifications == 1
NumWorkers == 2

\* ------------------------------------------------------- program constants
None == 0
CloseUnauthorized == 4001
CloseForbidden == 4003

Users == 1..NumUsers
Conns == 1..NumConns
\* socket handlers and HTTP workers that serve requests at the same time
Workers == 1..NumWorkers
\* a user id carried by a well-formed token whose User row does not exist
GhostUser == NumUsers + 1
\* a user row with is_active = False; the user takes part in no chat
InactiveUser == NumUsers + 2

VARIABLES
    chats,          \* set of Chat rows [id, participants, is_group_chat, last_message]
    nextChat,       \* number of Chat rows ever inserted (ids are never reused)
    messages,       \* sequence of Message rows in creation order; id = index
    statuses,       \* set of MessageStatus rows, unique per (message, user)
    clock,          \* timezone.now()
    conns,          \* per socket: the consumer instance and its scope
    groups,         \* channel layer: group name -> set of channels
    notifications,  \* set of Notification rows
    nextNotif,      \* number of Notification rows ever inserted
    settings,       \* NotificationSettings rows: user -> flags, absent until created
    frames,         \* frames written to each socket by the last handler
    published,      \* events given to channel_layer.group_send by the last handler
    last,           \* the last request and its result
    requests        \* per worker: the request it is serving, between its queries

vars == <<chats, nextChat, messages, statuses, clock, conns, groups,
          notifications, nextNotif, settings, frames, published, last, requests>>

chatDB == <<chats, nextChat, messages, statuses>>
notifDB == <<notifications, nextNotif, settings>>
sockets == <<conns, groups>>

\* ------------------------------------------------------------ data helpers
SeqToSet(s) == {s[i] : i \in 1..Len(s)}

ChatIds == {c.id : c \in chats}
ChatById(id) == CHOOSE c \in chats : c.id = id
Participants(id) == IF id \in ChatIds THEN ChatById(id).participants ELSE {}

MessageIds == 1..Len(messages)
StatusKeys == {<<s.message, s.user>> : s \in statuses}
StatusOf(m, u) == CHOOSE s \in statuses : s.message = m /\ s.user = u

ChatGroup(chat_id) == <<"chat", chat_id>>
NotificationGroup(user_id) == <<"notifications", user_id>>

IdleConn == [kind |-> "none", state |-> "idle", chat_id |-> None, user |-> None,
             close_code |-> None]

\* str.strip() on a content string, a sequence of characters
RECURSIVE LStrip(_)
LStrip(s) == IF s # <<>> /\ Head(s) = " " THEN LStrip(Tail(s)) ELSE s
RECURSIVE RStrip(_)
RStrip(s) == IF s # <<>> /\ s[Len(s)] = " " THEN RStrip(SubSeq(s, 1, Len(s) - 1)) ELSE s
\* variant: the content is taken as typed
Strip_Verbatim(s) == s

Strip(s) == RStrip(LStrip(s))

\* ------------------------------------------------------------------ inputs
Tokens == {[kind |-> "none"], [kind |-> "invalid"]}
            \cup {[kind |-> "valid", user_id |-> u] : u \in Users \cup {GhostUser}}
RawContents == {<<>>, <<" ">>, <<" ", "h", "i">>}
\* what a frame can carry as reply_to or message_id: nothing, a string that is no
\* UUID, the id of a stored message, or a well-formed id of no message
MessageRefs == {[kind |-> "absent"], [kind |-> "malformed"]}
                 \cup {[kind |-> "uuid", id |-> i] : i \in 1..(Len(messages) + 1)}
\* chat ids a socket URL can name: every chat row ever inserted and one unknown id
UrlChatIds == 1..(nextChat + 1)
\* tokens as simplejwt issued them, among them one issued to a user who was
\* deactivated afterwards
SocketTokens == {[kind |-> "none"]}
                  \cup {[kind |-> "valid", user_id |-> u] : u \in Users \cup {InactiveUser}}

\* the users notifications are about and who call the notification API
Actors == {u \in Users : u <= 2}

\* ----------------------------------------------------------- channel layer
Members(group) == {c \in Conns : <<group, c>> \in groups}
NoFrames == [c \in Conns |-> <<>>]

\* a worker that serves no request
NoRequest == [op |-> "none"]
NoRequests == [w \in Workers |-> NoRequest]

ErrorFrame(text) == [type |-> "error", message |-> text]

\* User.username of a user id, a string of the characters the username
\* validator admits (letters, digits, dot, underscore): users 1, 2 and 3 are
\* "a", "b" and "a.b"
Username(user) ==
    IF user = 1 THEN <<"a">>
    ELSE IF user = 2 THEN <<"b">>
    ELSE IF user = 3 THEN <<"a", ".", "b">>
    ELSE [i \in 1..user |-> "x"]

\* variant: the typing frame also goes to the sockets of the typing user
Render_TypingEcho(c, event) ==
    CASE event.type = "chat_message_broadcast" ->
            <<[type |-> "new_message", message |-> event.message_data]>>
      [] event.type = "message_status_update" ->
            <<[type |-> "message_status", message_id |-> event.message_id,
               status |-> event.status, user_id |-> event.user_id,
               timestamp |-> event.timestamp]>>
      [] event.type = "typing_indicator" ->
            <<[type |-> "typing_indicator", user_id |-> event.user_id,
               username |-> event.username, is_typing |-> event.is_typing]>>
      [] event.type = "notification_created" ->
            <<[type |-> "new_notification", notification |-> event.notification_data]>>
      [] event.type = "unread_count_updated" ->
            <<[type |-> "unread_count_updated", count |-> event.count]>>
      [] OTHER -> <<>>

\* channel_layer.group_send: every channel joined to the group handles the event
\* the consumer method a group event is dispatched to on channel c
Render(c, event) ==
    CASE event.type = "chat_message_broadcast" ->
            <<[type |-> "new_message", message |-> event.message_data]>>
      [] event.type = "message_status_update" ->
            <<[type |-> "message_status", message_id |-> event.message_id,
               status |-> event.status, user_id |-> event.user_id,
               timestamp |-> event.timestamp]>>
      [] event.type = "typing_indicator" ->
            IF event.user_id # conns[c].user
            THEN <<[type |-> "typing_indicator", user_id |-> event.user_id,
                    username |-> event.username, is_typing |-> event.is_typing]>>
            ELSE <<>>
      [] event.type = "notification_created" ->
            <<[type |-> "new_notification", notification |-> event.notification_data]>>
      [] event.type = "unread_count_updated" ->
            <<[type |-> "unread_count_updated", count |-> event.count]>>
      [] OTHER -> <<>>

\* channel_layer.group_send: every channel joined to the group handles the event
GroupSend(group, event) ==
    [c \in Conns |-> IF c \in Members(group) THEN Render(c, event) ELSE <<>>]

\* ------------------------------------------------------ ChatConsumer.connect
GetUserFromToken(token) ==
    IF token.kind # "valid" THEN None
    ELSE IF token.user_id \notin Users \cup {InactiveUser} THEN None
    ELSE token.user_id

\* variant: membership of the chat is not looked up
VerifyChatParticipant_Anyone(chat_id, user) == TRUE

VerifyChatParticipant(chat_id, user) ==
    \E ch \in chats : ch.id = chat_id /\ user \in ch.participants

Connect(c, chat_id, token) ==
    /\ conns[c].state = "idle"
    /\ LET user == GetUserFromToken(token) IN
       IF user = None
       THEN /\ conns' = [conns EXCEPT ![c] =
                    [kind |-> "chat", state |-> "rejected", chat_id |-> chat_id,
                     user |-> None, close_code |-> CloseUnauthorized]]
            /\ groups' = groups
            /\ frames' = NoFrames
       ELSE IF ~VerifyChatParticipant(chat_id, user)
       THEN /\ conns' = [conns EXCEPT ![c] =
                    [kind |-> "chat", state |-> "rejected", chat_id |-> chat_id,
                     user |-> user, close_code |-> CloseForbidden]]
            /\ groups' = groups
            /\ frames' = NoFrames
       ELSE /\ conns' = [conns EXCEPT ![c] =
                    [kind |-> "chat", state |-> "open", chat_id |-> chat_id,
                     user |-> user, close_code |-> None]]
            /\ groups' = groups \cup {<<ChatGroup(chat_id), c>>}
            /\ frames' = [NoFrames EXCEPT ![c] =
                    <<[type |-> "connection_established", chat_id |-> chat_id,
                       user_id |-> user]>>]
    /\ published' = <<>>
    /\ UNCHANGED requests
    /\ last' = [op |-> "connect", conn |-> c, chat_id |-> chat_id, token |-> token]
    /\ UNCHANGED <<chatDB, clock, notifDB>>

\* variant: the channel stays in its group
Disconnect_NoDiscard(c) ==
    /\ conns[c].kind = "chat"
    /\ groups' = groups
    /\ conns' = [conns EXCEPT ![c] = IdleConn]
    /\ frames' = NoFrames
    /\ published' = <<>>
    /\ UNCHANGED requests
    /\ last' = [op |-> "disconnect", conn |-> c, was |-> conns[c].state]
    /\ UNCHANGED <<chatDB, clock, notifDB>>

\* websocket.disconnect, also delivered after a rejected handshake
Disconnect(c) ==
    /\ conns[c].kind = "chat"
    /\ groups' = groups \ {<<ChatGroup(conns[c].chat_id), c>>}
    /\ conns' = [conns EXCEPT ![c] = IdleConn]
    /\ frames' = NoFrames
    /\ published' = <<>>
    /\ UNCHANGED requests
    /\ last' = [op |-> "disconnect", conn |-> c, was |-> conns[c].state]
    /\ UNCHANGED <<chatDB, clock, notifDB>>

\* ------------------------------------------- NotificationConsumer.connect
NotificationConnect(c, token) ==
    /\ conns[c].state = "idle"
    /\ LET user == GetUserFromToken(token) IN
       IF user = None
       THEN /\ conns' = [conns EXCEPT ![c] =
                    [kind |-> "notifications", state |-> "rejected", chat_id |-> None,
                     user |-> None, close_code |-> CloseUnauthorized]]
            /\ groups' = groups
            /\ frames' = NoFrames
       ELSE /\ conns' = [conns EXCEPT ![c] =
                    [kind |-> "notifications", state |-> "open", chat_id |-> None,
                     user |-> user, close_code |-> None]]
            /\ groups' = groups \cup {<<NotificationGroup(user), c>>}
            /\ frames' = [NoFrames EXCEPT ![c] =
                    <<[type |-> "connection_established", user_id |-> user]>>]
    /\ published' = <<>>
    /\ UNCHANGED requests
    /\ last' = [op |-> "notification_connect", conn |-> c, token |-> token]
    /\ UNCHANGED <<chatDB, clock, notifDB>>

\* NotificationConsumer.disconnect: the group name exists once the token was
\* accepted
NotificationDisconnect(c) ==
    /\ conns[c].kind = "notifications"
    /\ groups' = IF conns[c].user = None THEN groups
                 ELSE groups \ {<<NotificationGroup(conns[c].user), c>>}
    /\ conns' = [conns EXCEPT ![c] = IdleConn]
    /\ frames' = NoFrames
    /\ published' = <<>>
    /\ UNCHANGED requests
    /\ last' = [op |-> "notification_disconnect", conn |-> c, was |-> conns[c].state]
    /\ UNCHANGED <<chatDB, clock, notifDB>>

\* ------------------------------------------------- Message post_save signals
\* update_chat_last_message
UpdateChatLastMessage(m) ==
    {IF ch.id = m.chat /\ ~m.is_deleted THEN [ch EXCEPT !.last_message = m.id] ELSE ch
        : ch \in chats}

\* create_message_status_records_optimized: one 'sent' row per other participant
CreateMessageStatusRecords(m) ==
    LET rows == {[message |-> m.id, user |-> p, status |-> "sent",
                  delivered_at |-> None, read_at |-> None]
                    : p \in Participants(m.chat) \ {m.sender}}
    IN  statuses \cup {r \in rows : <<r.message, r.user>> \notin StatusKeys}

NewMessage(chat_id, sender, content, reply_to) ==
    [id |-> Len(messages) + 1, chat |-> chat_id, sender |-> sender,
     content |-> content, reply_to |-> reply_to,
     is_edited |-> FALSE, is_deleted |-> FALSE]

\* variant: the message is stored without its status rows
InsertMessage_NoStatusRows(m) ==
    /\ messages' = Append(messages, m)
    /\ chats' = UpdateChatLastMessage(m)
    /\ statuses' = statuses
    /\ nextChat' = nextChat

\* Message.objects.create followed by its post_save receivers
InsertMessage(m) ==
    /\ messages' = Append(messages, m)
    /\ chats' = UpdateChatLastMessage(m)
    /\ statuses' = CreateMessageStatusRecords(m)
    /\ nextChat' = nextChat

\* ------------------------------------------- ChatConsumer.handle_chat_message
\* reply_to lookup of create_message: "raise" when the id is no UUID (the lookup
\* raises ValidationError, which only the outer handler catches), None when no
\* message of this chat has the id, the id otherwise
ResolveReplyTo(chat_id, ref) ==
    IF ref.kind = "absent" THEN [raised |-> FALSE, reply_to |-> None]
    ELSE IF ref.kind = "malformed" THEN [raised |-> TRUE, reply_to |-> None]
    ELSE IF ref.id \in MessageIds /\ messages[ref.id].chat = chat_id
         THEN [raised |-> FALSE, reply_to |-> ref.id]
         ELSE [raised |-> FALSE, reply_to |-> None]

\* serialize_message with MessageSerializer: 'reply_to' is rendered as the raw
\* primary key of the replied-to message
SerializeMessage(m) ==
    [id |-> m.id, content |-> m.content, sender |-> m.sender, reply_to |-> m.reply_to]

\* the channel layer (channels_redis, msgpack) only takes plain values: a raw
\* UUID primary key in the event makes group_send raise TypeError
Packable(message_data) == message_data.reply_to = None

\* ChatConsumer.receive on a text frame no handler is dispatched for: text
\* that is no JSON, or JSON whose type is missing or names no handler
InvalidFrames == {[json |-> FALSE, type |-> "none"],
                  [json |-> TRUE, type |-> "none"],
                  [json |-> TRUE, type |-> "bogus"]}

ReceiveInvalid(c, frame) ==
    /\ conns[c].kind = "chat" /\ conns[c].state = "open"
    /\ frames' = [NoFrames EXCEPT ![c] =
          <<ErrorFrame(IF frame.json THEN "Unknown message type"
                       ELSE "Invalid JSON format")>>]
    /\ published' = <<>>
    /\ UNCHANGED requests
    /\ last' = [op |-> "receive", conn |-> c, user |-> conns[c].user, frame |-> frame]
    /\ UNCHANGED <<chatDB, clock, sockets, notifDB>>

HandleChatMessage(c, raw, ref) ==
    /\ conns[c].kind = "chat" /\ conns[c].state = "open"
    /\ LET content == Strip(raw)
           chat_id == conns[c].chat_id
           user    == conns[c].user
           res     == ResolveReplyTo(chat_id, ref)
           m       == NewMessage(chat_id, user, content, res.reply_to)
           data    == SerializeMessage(m)
       IN  /\ UNCHANGED requests
           /\ last' = [op |-> "chat_message", conn |-> c, user |-> user,
                        chat_id |-> chat_id, content |-> raw, reply_to |-> ref]
           /\ IF content = <<>>
              THEN /\ frames' = [NoFrames EXCEPT ![c] =
                                    <<ErrorFrame("Message content cannot be empty")>>]
                   /\ published' = <<>>
                   /\ UNCHANGED chatDB
              ELSE IF chat_id \notin ChatIds \/ res.raised
              THEN /\ frames' = [NoFrames EXCEPT ![c] =
                                    <<ErrorFrame("Error sending message")>>]
                   /\ published' = <<>>
                   /\ UNCHANGED chatDB
              ELSE /\ Len(messages) < MaxMessages
                   /\ InsertMessage(m)
                   /\ IF Packable(data)
                      THEN LET event == [type |-> "chat_message_broadcast",
                                         message_data |-> data]
                           IN  /\ published' = <<[group |-> ChatGroup(chat_id),
                                                   event |-> event]>>
                               /\ frames' = GroupSend(ChatGroup(chat_id), event)
                      ELSE /\ published' = <<>>
                           /\ frames' = [NoFrames EXCEPT ![c] =
                                            <<ErrorFrame("Error sending message")>>]
    /\ UNCHANGED <<clock, sockets, notifDB>>

\* ------------------------------------------------ MessageStatus transitions
\* variant: the status is set whatever the row holds
MarkDelivered_Unguarded(row, now) ==
    [row EXCEPT !.status = "delivered", !.delivered_at = now]

\* MessageStatus.mark_delivered
MarkDelivered(row, now) ==
    IF row.status = "sent"
    THEN [row EXCEPT !.status = "delivered", !.delivered_at = now]
    ELSE row

\* variant: delivered_at is left as it is
MarkRead_NoBackfill(row, now) ==
    IF row.status \in {"sent", "delivered"}
    THEN [row EXCEPT !.status = "read", !.read_at = now]
    ELSE row

\* variant: read_at is stamped on every call
MarkRead_Restamp(row, now) ==
    [row EXCEPT !.status = "read", !.read_at = now,
                !.delivered_at = IF row.delivered_at = None THEN now
                                 ELSE row.delivered_at]

\* MessageStatus.mark_read
MarkRead(row, now) ==
    IF row.status \in {"sent", "delivered"}
    THEN [row EXCEPT !.status = "read", !.read_at = now,
                     !.delivered_at = IF row.delivered_at = None THEN now
                                      ELSE row.delivered_at]
    ELSE row

\* MessageStatus.objects.get_or_create(message=..., user=...)
GetOrCreateStatus(m, u) ==
    IF <<m, u>> \in StatusKeys THEN StatusOf(m, u)
    ELSE [message |-> m, user |-> u, status |-> "sent",
          delivered_at |-> None, read_at |-> None]

\* Message.objects.get(id=message_id, chat__participants=user): the message id
\* found, or None (DoesNotExist, or ValidationError for an id that is no UUID)
FindMessageForUser(ref, user) ==
    IF ref.kind # "uuid" THEN None
    ELSE IF ref.id \in MessageIds /\ user \in Participants(messages[ref.id].chat)
         THEN ref.id
         ELSE None

\* variant: the sender of a message is not turned away
MarkOutcome_NoOwnCheck(ref, user, method, now) ==
    LET m == FindMessageForUser(ref, user) IN
    IF m = None
    THEN [found |-> FALSE, own |-> FALSE, ok |-> FALSE, rows |-> statuses, prior |-> "none"]
    ELSE LET old == GetOrCreateStatus(m, user)
             new == IF method = "read" THEN MarkRead(old, now) ELSE MarkDelivered(old, now)
         IN  [found |-> TRUE, own |-> FALSE, ok |-> TRUE,
              rows |-> {s \in statuses : ~(s.message = m /\ s.user = user)} \cup {new},
              prior |-> IF <<m, user>> \in StatusKeys THEN old.status ELSE "absent"]

\* the body shared by mark_message_read / mark_message_delivered of the consumer
\* and of the HTTP views: whether the message was found, whether it is the
\* user's own, the success flag, the table after the save, and the status the
\* row had before ("none" when nothing was looked up, "absent" when created)
MarkOutcome(ref, user, method, now) ==
    LET m == FindMessageForUser(ref, user) IN
    IF m = None
    THEN [found |-> FALSE, own |-> FALSE, ok |-> FALSE, rows |-> statuses, prior |-> "none"]
    ELSE IF messages[m].sender = user
    THEN [found |-> TRUE, own |-> TRUE, ok |-> FALSE, rows |-> statuses, prior |-> "none"]
    ELSE LET old == GetOrCreateStatus(m, user)
             new == IF method = "read" THEN MarkRead(old, now) ELSE MarkDelivered(old, now)
         IN  [found |-> TRUE, own |-> FALSE, ok |-> TRUE,
              rows |-> {s \in statuses : ~(s.message = m /\ s.user = user)} \cup {new},
              prior |-> IF <<m, user>> \in StatusKeys THEN old.status ELSE "absent"]

StatusEvent(ref, status, user, now) ==
    [type |-> "message_status_update", message_id |-> ref.id, status |-> status,
     user_id |-> user, timestamp |-> now]

\* timezone.now() as stored by a save: every stored timestamp is later than the
\* ones stored before it
Stamp(rows) ==
    /\ rows # statuses => clock <= MaxClock
    /\ clock' = IF rows # statuses THEN clock + 1 ELSE clock

\* ChatConsumer.handle_message_read
HandleMessageRead(c, ref) ==
    /\ conns[c].kind = "chat" /\ conns[c].state = "open"
    /\ LET user == conns[c].user
           out  == MarkOutcome(ref, user, "read", clock)
           grp  == ChatGroup(conns[c].chat_id)
       IN  IF ref.kind = "absent"
           THEN /\ frames' = [NoFrames EXCEPT ![c] = <<ErrorFrame("Message ID is required")>>]
                /\ published' = <<>>
                /\ statuses' = statuses
                /\ clock' = clock
                /\ UNCHANGED requests
                /\ last' = [op |-> "message_read", via |-> "ws", conn |-> c,
                            user |-> user, message_id |-> ref, ok |-> FALSE,
                            prior |-> "none"]
           ELSE /\ statuses' = out.rows
                /\ Stamp(out.rows)
                /\ UNCHANGED requests
                /\ last' = [op |-> "message_read", via |-> "ws", conn |-> c,
                            user |-> user, message_id |-> ref, ok |-> out.ok,
                            prior |-> out.prior]
                /\ IF out.ok
                   THEN LET event == StatusEvent(ref, "read", user, clock)
                        IN  /\ published' = <<[group |-> grp, event |-> event]>>
                            /\ frames' = GroupSend(grp, event)
                   ELSE /\ published' = <<>>
                        /\ frames' = [NoFrames EXCEPT ![c] =
                                        <<ErrorFrame("Failed to mark message as read")>>]
    /\ UNCHANGED <<chats, nextChat, messages, sockets, notifDB>>

\* ChatConsumer.handle_message_delivered: a failed update sends no frame at all
HandleMessageDelivered(c, ref) ==
    /\ conns[c].kind = "chat" /\ conns[c].state = "open"
    /\ LET user == conns[c].user
           out  == MarkOutcome(ref, user, "delivered", clock)
           grp  == ChatGroup(conns[c].chat_id)
       IN  IF ref.kind = "absent"
           THEN /\ frames' = [NoFrames EXCEPT ![c] = <<ErrorFrame("Message ID is required")>>]
                /\ published' = <<>>
                /\ statuses' = statuses
                /\ clock' = clock
                /\ UNCHANGED requests
                /\ last' = [op |-> "message_delivered", via |-> "ws", conn |-> c,
                            user |-> user, message_id |-> ref, ok |-> FALSE,
                            prior |-> "none"]
           ELSE /\ statuses' = out.rows
                /\ Stamp(out.rows)
                /\ UNCHANGED requests
                /\ last' = [op |-> "message_delivered", via |-> "ws", conn |-> c,
                            user |-> user, message_id |-> ref, ok |-> out.ok,
                            prior |-> out.prior]
                /\ IF out.ok
                   THEN LET event == StatusEvent(ref, "delivered", user, clock)
                        IN  /\ published' = <<[group |-> grp, event |-> event]>>
                            /\ frames' = GroupSend(grp, event)
                   ELSE /\ published' = <<>>
                        /\ frames' = NoFrames
    /\ UNCHANGED <<chats, nextChat, messages, sockets, notifDB>>

\* ChatConsumer.handle_typing_start / handle_typing_stop
HandleTyping(c, is_typing) ==
    /\ conns[c].kind = "chat" /\ conns[c].state = "open"
    /\ LET grp   == ChatGroup(conns[c].chat_id)
           event == [type |-> "typing_indicator", user_id |-> conns[c].user,
                     username |-> Username(conns[c].user), is_typing |-> is_typing]
       IN  /\ published' = <<[group |-> grp, event |-> event]>>
           /\ frames' = GroupSend(grp, event)
    /\ UNCHANGED requests
    /\ last' = [op |-> IF is_typing THEN "typing_start" ELSE "typing_stop", conn |-> c,
                user |-> conns[c].user]
    /\ UNCHANGED <<chatDB, clock, sockets, notifDB>>

\* views.mark_message_read / views.mark_message_delivered (POST); the URL only
\* matches a well-formed uuid
HttpMarkMessage(user, id, method) ==
    /\ LET ref == [kind |-> "uuid", id |-> id]
           out == MarkOutcome(ref, user, method, clock)
       IN  /\ statuses' = out.rows
           /\ Stamp(out.rows)
           /\ UNCHANGED requests
           /\ last' = [op |-> IF method = "read" THEN "message_read" ELSE "message_delivered",
                       via |-> "http", user |-> user, message_id |-> ref, ok |-> out.ok,
                       prior |-> out.prior,
                       http_status |-> IF out.ok THEN 200 ELSE IF out.own THEN 400 ELSE 500]
    /\ frames' = NoFrames
    /\ published' = <<>>
    /\ UNCHANGED <<chats, nextChat, messages, sockets, notifDB>>

\* ------------------------------------------------------- chat management
\* participant_ids as a request can carry them: no id, one id, or two ids (in
\* ascending order, the code never looks at the order), possibly the same twice
ParticipantIdLists ==
    LET ids == Users \cup {GhostUser}
    IN  {<<>>} \cup {<<a>> : a \in ids}
               \cup {<<p[1], p[2]>> : p \in {q \in ids \X ids : q[1] <= q[2]}}

\* ChatCreateSerializer.validate_participant_ids
ValidateParticipantIds(value) ==
    /\ Len(value) >= 1
    /\ Len(value) <= 50
    /\ Cardinality({u \in Users : u \in SeqToSet(value)}) = Len(value)

\* ChatCreateSerializer.validate
ValidateChat(is_group_chat, participant_ids) ==
    /\ ~is_group_chat => Len(participant_ids) = 1
    /\ is_group_chat => Len(participant_ids) >= 2

\* ChatCreateSerializer.create: the creator and every existing user of the list
SerializerCreate(id, user, is_group_chat, participant_ids) ==
    [id |-> id, participants |-> {user} \cup (SeqToSet(participant_ids) \cap Users),
     is_group_chat |-> is_group_chat, last_message |-> None]

\* variant: nothing is looked up
ExistingDirectChats_None(user, chat) == {}

\* the lookup of perform_create: direct chats other than the new one that hold
\* the requester and other_participant, the first other participant of the new
\* chat (none when the new chat holds only the requester)
ExistingDirectChats(user, chat) ==
    LET others == chat.participants \ {user}
    IN  {e \in chats : /\ ~e.is_group_chat
                       /\ e.id # chat.id
                       /\ user \in e.participants
                       /\ \E o \in others : o \in e.participants}

\* ChatListCreateAPIView.create with perform_create
CreateChat(user, is_group_chat, participant_ids) ==
    /\ IF ~(ValidateParticipantIds(participant_ids)
            /\ ValidateChat(is_group_chat, participant_ids))
       THEN /\ UNCHANGED requests
            /\ last' = [op |-> "create_chat", http_status |-> 400]
            /\ UNCHANGED <<chats, nextChat>>
       ELSE /\ nextChat < MaxChats
            /\ nextChat' = nextChat + 1
            /\ LET chat == SerializerCreate(nextChat + 1, user, is_group_chat, participant_ids)
                   existing == ExistingDirectChats(user, chat)
               IN  IF ~is_group_chat /\ existing # {}
                   THEN \E e \in existing :
                           /\ chats' = chats
                           /\ UNCHANGED requests
                           /\ last' = [op |-> "create_chat", user |-> user,
                                       is_group_chat |-> is_group_chat,
                                       participant_ids |-> participant_ids,
                                       http_status |-> 201, chat |-> e.id]
                   ELSE /\ chats' = chats \cup {chat}
                        /\ UNCHANGED requests
                        /\ last' = [op |-> "create_chat", user |-> user,
                                    is_group_chat |-> is_group_chat,
                                    participant_ids |-> participant_ids,
                                    http_status |-> 201, chat |-> chat.id]
    /\ frames' = NoFrames
    /\ published' = <<>>
    /\ UNCHANGED <<messages, statuses, clock, sockets, notifDB>>

\* ------------------------------------------------- messages over HTTP
\* the reply_to field of MessageCreateSerializer, a PrimaryKeyRelatedField over
\* Message.objects.all(): any stored message is taken, of whichever chat
ValidateReplyTo(ref) ==
    IF ref.kind = "absent" THEN [ok |-> TRUE, given |-> FALSE, reply_to |-> None]
    ELSE IF ref.kind = "uuid" /\ ref.id \in MessageIds /\ messages[ref.id].chat # None
    THEN [ok |-> TRUE, given |-> TRUE, reply_to |-> ref.id]
    ELSE [ok |-> FALSE, given |-> TRUE, reply_to |-> None]

\* ChatMessagesListCreateAPIView POST: the serializer validates, perform_create
\* looks the chat up among the requester's chats and saves the message
HttpCreateMessage(user, chat_id, raw, ref) ==
    /\ LET content == Strip(raw)
           v       == ValidateReplyTo(ref)
           m       == NewMessage(chat_id, user, content, v.reply_to)
       IN  IF content = <<>> \/ ~v.ok
           THEN /\ UNCHANGED requests
                /\ last' = [op |-> "http_create_message", http_status |-> 400]
                /\ UNCHANGED chatDB
           ELSE IF ~VerifyChatParticipant(chat_id, user)
           THEN /\ UNCHANGED requests
                /\ last' = [op |-> "http_create_message", http_status |-> 404]
                /\ UNCHANGED chatDB
           ELSE /\ Len(messages) < MaxMessages
                /\ InsertMessage(m)
                /\ UNCHANGED requests
                /\ last' = [op |-> "http_create_message", http_status |-> 201,
                            user |-> user, message |-> m.id, reply_to |-> ref]
    /\ frames' = NoFrames
    /\ published' = <<>>
    /\ UNCHANGED <<clock, sockets, notifDB>>

\* MessageDetailAPIView.get_queryset: messages of the requester's chats
VisibleMessage(user, id) ==
    id \in MessageIds /\ user \in Participants(messages[id].chat)

\* MessageDetailAPIView PUT. update() loads the message, validates, and calls
\* perform_update, which loads the message a second time, returns early for
\* anyone but the sender (the Response it returns is dropped), lets the
\* serializer save the first copy and then calls mark_as_edited on the second
\* copy, whose save() writes every column of that copy
HttpEditMessage(user, id, raw, ref) ==
    /\ LET content == Strip(raw)
           v       == ValidateReplyTo(ref)
       IN  IF ~VisibleMessage(user, id)
           THEN /\ UNCHANGED requests
                /\ last' = [op |-> "http_edit_message", http_status |-> 404]
                /\ messages' = messages
           ELSE IF content = <<>> \/ ~v.ok
           THEN /\ UNCHANGED requests
                /\ last' = [op |-> "http_edit_message", http_status |-> 400]
                /\ messages' = messages
           ELSE LET second     == messages[id]
                    serialized == [messages EXCEPT ![id] =
                                     [@ EXCEPT !.content = content,
                                               !.reply_to = IF v.given THEN v.reply_to
                                                            ELSE @]]
                    marked     == [serialized EXCEPT ![id] =
                                     [second EXCEPT !.is_edited = TRUE]]
                IN  /\ messages' = IF messages[id].sender = user THEN marked
                                   ELSE messages
                    /\ UNCHANGED requests
                    /\ last' = [op |-> "http_edit_message", http_status |-> 200,
                                user |-> user, message |-> id, content |-> content]
    /\ frames' = NoFrames
    /\ published' = <<>>
    /\ UNCHANGED <<chats, nextChat, statuses, clock, sockets, notifDB>>

\* Message.soft_delete: save() of an existing row, so update_chat_last_message
\* (created only) leaves the chat alone and no post_delete is sent
SoftDelete(m) == [m EXCEPT !.is_deleted = TRUE]

\* MessageDetailAPIView DELETE with perform_destroy
HttpDeleteMessage(user, id) ==
    /\ IF ~VisibleMessage(user, id)
       THEN /\ UNCHANGED requests
            /\ last' = [op |-> "http_delete_message", http_status |-> 404]
            /\ messages' = messages
       ELSE /\ messages' = IF messages[id].sender = user
                           THEN [messages EXCEPT ![id] = SoftDelete(@)]
                           ELSE messages
            /\ UNCHANGED requests
            /\ last' = [op |-> "http_delete_message", http_status |-> 204,
                        user |-> user, message |-> id]
    /\ frames' = NoFrames
    /\ published' = <<>>
    /\ UNCHANGED <<chats, nextChat, statuses, clock, sockets, notifDB>>

\* Chat.delete: messages and their status rows go with the chat (on_delete
\* CASCADE); a deleted message keeps its slot, in no chat, so ids are not reused
DeletedMessage(m) == [m EXCEPT !.chat = None, !.is_deleted = TRUE]
CascadeMessages(chat_id) ==
    [i \in 1..Len(messages) |->
        IF messages[i].chat = chat_id THEN DeletedMessage(messages[i]) ELSE messages[i]]
CascadeStatuses(chat_id) ==
    {s \in statuses : messages[s.message].chat # chat_id}

\* ChatDetailAPIView DELETE: get_object over the requester's chats, then
\* perform_destroy
LeaveChat(user, chat_id) ==
    /\ IF ~VerifyChatParticipant(chat_id, user)
       THEN /\ UNCHANGED requests
            /\ last' = [op |-> "leave_chat", http_status |-> 404]
            /\ UNCHANGED <<chats, messages, statuses>>
       ELSE LET chat == ChatById(chat_id)
                left == [chat EXCEPT !.participants = @ \ {user}]
            IN  /\ UNCHANGED requests
                /\ last' = [op |-> "leave_chat", http_status |-> 204]
                /\ IF left.participants = {}
                   THEN /\ chats' = chats \ {chat}
                        /\ messages' = CascadeMessages(chat_id)
                        /\ statuses' = CascadeStatuses(chat_id)
                   ELSE /\ chats' = (chats \ {chat}) \cup {left}
                        /\ UNCHANGED <<messages, statuses>>
    /\ frames' = NoFrames
    /\ published' = <<>>
    /\ UNCHANGED <<nextChat, clock, sockets, notifDB>>

\* views.manage_chat_participant (POST adds, DELETE removes); a 404 raised inside
\* the view's try block comes back as 500
ManageChatParticipant(user, chat_id, user_id, method) ==
    /\ LET found  == VerifyChatParticipant(chat_id, user) /\ user_id \in Users
           chat   == ChatById(chat_id)
           member == user_id \in chat.participants
           result ==
              IF ~found THEN [http_status |-> 500, participants |-> {}]
              ELSE IF method = "POST"
              THEN IF ~chat.is_group_chat \/ member
                   THEN [http_status |-> 400, participants |-> chat.participants]
                   ELSE [http_status |-> 200,
                         participants |-> chat.participants \cup {user_id}]
              ELSE IF ~member \/ user_id = user
                   THEN [http_status |-> 400, participants |-> chat.participants]
                   ELSE [http_status |-> 200,
                         participants |-> chat.participants \ {user_id}]
       IN  /\ UNCHANGED requests
           /\ last' = [op |-> "manage_participant", method |-> method,
                       http_status |-> result.http_status]
           /\ chats' = IF found
                       THEN (chats \ {chat})
                               \cup {[chat EXCEPT !.participants = result.participants]}
                       ELSE chats
    /\ frames' = NoFrames
    /\ published' = <<>>
    /\ UNCHANGED <<nextChat, messages, statuses, clock, sockets, notifDB>>

\* ----------------------------------------------------------- notifications
NotificationTypes == {"like", "comment", "follow", "mention", "message", "system"}

\* NotificationSettings as the User post_save receiver creates them
DefaultSettings ==
    [likes_enabled |-> TRUE, comments_enabled |-> TRUE, follows_enabled |-> TRUE,
     mentions_enabled |-> TRUE, messages_enabled |-> TRUE]

\* _should_send_notification
ShouldSendNotification(settings_obj, notification_type) ==
    CASE notification_type = "like"    -> settings_obj.likes_enabled
      [] notification_type = "comment" -> settings_obj.comments_enabled
      [] notification_type = "follow"  -> settings_obj.follows_enabled
      [] notification_type = "mention" -> settings_obj.mentions_enabled
      [] notification_type = "message" -> settings_obj.messages_enabled
      [] OTHER -> TRUE

\* variant: the count takes every row of the user, read or not
UnreadCount_AllRows(rows, user) ==
    Cardinality({n \in rows : n.recipient = user})

\* utils.get_unread_count over a table
UnreadCount(rows, user) ==
    Cardinality({n \in rows : n.recipient = user /\ ~n.is_read})

\* Notification.objects.create with object_id = content_object.pk: the column is
\* a PositiveIntegerField, so the UUID primary key of a Message or a Chat makes
\* the insert raise; "none" is no content object, "int" one with an integer key
InsertRaises(content) == content = "uuid"

\* variant: the refreshed count is sent before the notification
RealtimeEvents_CountFirst(n, rows) ==
    <<[group |-> NotificationGroup(n.recipient),
       event |-> [type |-> "unread_count_updated",
                  count |-> UnreadCount(rows, n.recipient)]],
      [group |-> NotificationGroup(n.recipient),
       event |-> [type |-> "notification_created",
                  notification_data |-> [id |-> n.id,
                                         notification_type |-> n.notification_type,
                                         sender |-> n.sender, is_read |-> n.is_read]]]>>

\* _send_realtime_notification: the two events for the recipient's group
RealtimeEvents(n, rows) ==
    <<[group |-> NotificationGroup(n.recipient),
       event |-> [type |-> "notification_created",
                  notification_data |-> [id |-> n.id,
                                         notification_type |-> n.notification_type,
                                         sender |-> n.sender, is_read |-> n.is_read]]],
      [group |-> NotificationGroup(n.recipient),
       event |-> [type |-> "unread_count_updated",
                  count |-> UnreadCount(rows, n.recipient)]]>>

\* what can go wrong in _send_realtime_notification: get_channel_layer gives
\* nothing, the serializer or the first group_send raises, or the unread count
\* or the second group_send raises
PublishFaults == {"no_layer", "first_send", "second_send"}

\* _send_realtime_notification under a fault: the events that reached the
\* group before the function returned or its except clause took over
SendRealtimeNotification(n, rows, fault) ==
    CASE fault = "no_layer"    -> <<>>
      [] fault = "first_send"  -> <<>>
      [] fault = "second_send" -> SubSeq(RealtimeEvents(n, rows), 1, 1)
      [] OTHER                 -> RealtimeEvents(n, rows)

\* variant: a failed publish undoes the insert and nothing is returned
CreateNotification_PublishFailureRollsBack(call, st) ==
    LET new == [id |-> st.next + 1, recipient |-> call.recipient,
                sender |-> call.sender, notification_type |-> call.notification_type,
                is_read |-> FALSE]
    IN  IF ~ShouldSendNotification(settings[call.recipient], call.notification_type)
        THEN [rows |-> st.rows, next |-> st.next, result |-> None, events |-> <<>>]
        ELSE IF call.sender # None /\ call.sender = call.recipient
        THEN [rows |-> st.rows, next |-> st.next, result |-> None, events |-> <<>>]
        ELSE IF InsertRaises(call.content)
        THEN [rows |-> st.rows, next |-> st.next, result |-> None, events |-> <<>>]
        ELSE IF call.publish \in PublishFaults
        THEN [rows |-> st.rows, next |-> st.next + 1, result |-> None,
              events |-> SendRealtimeNotification(new, st.rows \cup {new}, call.publish)]
        ELSE [rows |-> st.rows \cup {new}, next |-> st.next + 1, result |-> new.id,
              events |-> RealtimeEvents(new, st.rows \cup {new})]

\* variant: a notification to oneself is not turned away
CreateNotification_NoSelfCheck(call, st) ==
    LET new == [id |-> st.next + 1, recipient |-> call.recipient,
                sender |-> call.sender, notification_type |-> call.notification_type,
                is_read |-> FALSE]
    IN  IF ~ShouldSendNotification(settings[call.recipient], call.notification_type)
        THEN [rows |-> st.rows, next |-> st.next, result |-> None, events |-> <<>>]
        ELSE IF InsertRaises(call.content)
        THEN [rows |-> st.rows, next |-> st.next, result |-> None, events |-> <<>>]
        ELSE [rows |-> st.rows \cup {new}, next |-> st.next + 1, result |-> new.id,
              events |-> SendRealtimeNotification(new, st.rows \cup {new}, call.publish)]

\* create_notification on the table st = [rows, next]: the table after the call,
\* the id of the record returned (None when nothing is returned) and the events
\* published; every exception is swallowed and None returned
CreateNotification(call, st) ==
    LET new == [id |-> st.next + 1, recipient |-> call.recipient,
                sender |-> call.sender, notification_type |-> call.notification_type,
                is_read |-> FALSE]
    IN  IF ~ShouldSendNotification(settings[call.recipient], call.notification_type)
        THEN [rows |-> st.rows, next |-> st.next, result |-> None, events |-> <<>>]
        ELSE IF call.sender # None /\ call.sender = call.recipient
        THEN [rows |-> st.rows, next |-> st.next, result |-> None, events |-> <<>>]
        ELSE IF InsertRaises(call.content)
        THEN [rows |-> st.rows, next |-> st.next, result |-> None, events |-> <<>>]
        ELSE [rows |-> st.rows \cup {new}, next |-> st.next + 1, result |-> new.id,
              events |-> SendRealtimeNotification(new, st.rows \cup {new}, call.publish)]

\* the create_notification calls of one handler, in order: the final table, the
\* calls with what each returned, and all events published
RECURSIVE RunCalls(_, _)
RunCalls(calls, st) ==
    IF calls = <<>>
    THEN [rows |-> st.rows, next |-> st.next, calls |-> <<>>, events |-> <<>>]
    ELSE LET out  == CreateNotification(Head(calls), st)
             rest == RunCalls(Tail(calls), [rows |-> out.rows, next |-> out.next])
         IN  [rows |-> rest.rows, next |-> rest.next,
              calls |-> <<[Head(calls) EXCEPT !.result = out.result]>> \o rest.calls,
              events |-> out.events \o rest.events]

\* the frames a sequence of published events puts on each socket
RECURSIVE Deliver(_)
Deliver(events) ==
    IF events = <<>> THEN NoFrames
    ELSE LET first == GroupSend(Head(events).group, Head(events).event)
             rest  == Deliver(Tail(events))
         IN  [c \in Conns |-> first[c] \o rest[c]]

Call(recipient, notification_type, sender, content) ==
    [recipient |-> recipient, notification_type |-> notification_type,
     sender |-> sender, content |-> content, publish |-> "ok", result |-> None]

\* a set of user ids in ascending order
RECURSIVE Ascending(_)
Ascending(S) ==
    IF S = {} THEN <<>>
    ELSE LET least == CHOOSE x \in S : \A y \in S : x <= y
         IN  <<least>> \o Ascending(S \ {least})

\* one handler that makes the given create_notification calls for a comment
\* with the given mentions (none for the other handlers); a handler that has
\* started makes all its calls
NotifyFrom(op, calls, mentions) ==
    /\ nextNotif < MaxNotifications
    /\ LET out == RunCalls(calls, [rows |-> notifications, next |-> nextNotif])
       IN  /\ notifications' = out.rows
           /\ nextNotif' = out.next
           /\ published' = out.events
           /\ frames' = Deliver(out.events)
           /\ UNCHANGED requests
           /\ last' = [op |-> op, calls |-> out.calls, mentions |-> mentions]
    /\ UNCHANGED <<chatDB, clock, sockets, settings>>

Notify(op, calls) == NotifyFrom(op, calls, <<>>)

\* utils.create_notification called directly
CallCreateNotification(recipient, notification_type, sender, content) ==
    Notify("create_notification", <<Call(recipient, notification_type, sender, content)>>)

\* utils.create_notification called while the channel layer misbehaves
CallCreateNotificationUnderFault(recipient, notification_type, sender, fault) ==
    Notify("create_notification",
           <<[Call(recipient, notification_type, sender, "none")
                EXCEPT !.publish = fault]>>)

\* utils.create_like_notification: a like of liker on a post of post_author
CreateLikeNotification(liker, post_author) ==
    Notify("create_like_notification", <<Call(post_author, "like", liker, "int")>>)

\* utils.create_follow_notification
CreateFollowNotification(follower, following) ==
    Notify("create_follow_notification", <<Call(following, "follow", follower, "int")>>)

\* the characters \w matches, among those a written name can hold
IsWordChar(ch) == ch # "."

\* the longest run of \w characters a written name starts with
RECURSIVE WordPrefix(_)
WordPrefix(name) ==
    IF name = <<>> \/ ~IsWordChar(Head(name)) THEN <<>>
    ELSE <<Head(name)>> \o WordPrefix(Tail(name))

\* re.findall(r'@(\w+)', comment.content) on a comment that holds the given
\* written names, each after an @
FindMentions(mentions) ==
    SelectSeq([i \in 1..Len(mentions) |-> WordPrefix(mentions[i])],
              LAMBDA token : token # <<>>)

\* User.objects.get(username=username): the user, None for DoesNotExist
UserByUsername(username) ==
    IF \E u \in Users : Username(u) = username
    THEN CHOOSE u \in Users : Username(u) = username
    ELSE None

\* _create_mention_notifications: one call per token that names a user
MentionCalls(commenter, mentions) ==
    LET found == SelectSeq([i \in 1..Len(FindMentions(mentions)) |->
                              UserByUsername(FindMentions(mentions)[i])],
                           LAMBDA u : u # None)
    IN  [i \in 1..Len(found) |-> Call(found[i], "mention", commenter, "int")]

\* utils.create_comment_notification
CreateCommentNotification(commenter, post_author, mentions) ==
    NotifyFrom("create_comment_notification",
               <<Call(post_author, "comment", commenter, "int")>>
                  \o MentionCalls(commenter, mentions),
               mentions)

\* utils.create_message_notification: one call per other participant of the chat
MessageCalls(m) ==
    LET to == Ascending(Participants(m.chat) \ {m.sender})
    IN  [i \in 1..Len(to) |-> Call(to[i], "message", m.sender, "uuid")]

CreateMessageNotification(id) ==
    /\ id \in MessageIds
    /\ Notify("create_message_notification", MessageCalls(messages[id]))

\* ------------------------------------------------- reading notifications
\* Notification.objects.get(id=notification_id, recipient=user)
OwnNotifications(notification_id, user) ==
    {n \in notifications : n.id = notification_id /\ n.recipient = user}

\* Notification.mark_as_read on a row of the table
MarkAsRead(rows, n) == (rows \ {n}) \cup {[n EXCEPT !.is_read = TRUE]}

\* the queryset update of mark_all_notifications_read: every unread row of
\* the user becomes read
MarkAllRead(rows, user) ==
    {IF n.recipient = user THEN [n EXCEPT !.is_read = TRUE] ELSE n : n \in rows}

\* NotificationConsumer.handle_mark_read with mark_notification_read; a missing
\* notification_id is None
WsMarkRead(c, notification_id) ==
    /\ conns[c].kind = "notifications" /\ conns[c].state = "open"
    /\ LET user  == conns[c].user
           found == OwnNotifications(notification_id, user)
           ok    == \E n \in found : ~n.is_read
       IN  /\ notifications' =
                 IF ok THEN MarkAsRead(notifications, CHOOSE n \in found : TRUE)
                 ELSE notifications
           /\ frames' = [NoFrames EXCEPT ![c] =
                 IF notification_id = None
                 THEN <<ErrorFrame("Notification ID is required")>>
                 ELSE IF ok
                 THEN <<[type |-> "mark_read_success",
                         notification_id |-> notification_id]>>
                 ELSE <<ErrorFrame("Failed to mark notification as read")>>]
           /\ UNCHANGED requests
           /\ last' = [op |-> "mark_read", via |-> "ws", user |-> user,
                       notification_id |-> notification_id, ok |-> ok]
    /\ published' = <<>>
    /\ UNCHANGED <<chatDB, clock, sockets, nextNotif, settings>>

\* NotificationConsumer.handle_mark_all_read with mark_all_notifications_read
WsMarkAllRead(c) ==
    /\ conns[c].kind = "notifications" /\ conns[c].state = "open"
    /\ LET user == conns[c].user
       IN  /\ notifications' = MarkAllRead(notifications, user)
           /\ frames' = [NoFrames EXCEPT ![c] =
                 <<[type |-> "mark_all_read_success",
                    updated_count |-> UnreadCount(notifications, user)]>>]
           /\ UNCHANGED requests
           /\ last' = [op |-> "mark_all_read", via |-> "ws", user |-> user,
                       updated_count |-> UnreadCount(notifications, user)]
    /\ published' = <<>>
    /\ UNCHANGED <<chatDB, clock, sockets, nextNotif, settings>>

\* NotificationConsumer.handle_get_unread_count with get_unread_count
WsGetUnreadCount(c) ==
    /\ conns[c].kind = "notifications" /\ conns[c].state = "open"
    /\ frames' = [NoFrames EXCEPT ![c] =
          <<[type |-> "unread_count",
             count |-> UnreadCount(notifications, conns[c].user)]>>]
    /\ UNCHANGED requests
    /\ last' = [op |-> "get_unread_count", via |-> "ws", user |-> conns[c].user]
    /\ published' = <<>>
    /\ UNCHANGED <<chatDB, clock, sockets, notifDB>>

\* views.unread_count, which answers with utils.get_unread_count(request.user)
HttpUnreadCount(user) ==
    /\ UNCHANGED requests
    /\ last' = [op |-> "get_unread_count", via |-> "http", user |-> user,
                unread_count |-> UnreadCount(notifications, user)]
    /\ frames' = NoFrames
    /\ published' = <<>>
    /\ UNCHANGED <<chatDB, clock, sockets, notifDB>>

\* views.mark_notification_read
HttpMarkNotificationRead(user, notification_id) ==
    /\ LET found == OwnNotifications(notification_id, user)
           ok    == \E n \in found : ~n.is_read
       IN  /\ notifications' =
                 IF ok THEN MarkAsRead(notifications, CHOOSE n \in found : TRUE)
                 ELSE notifications
           /\ UNCHANGED requests
           /\ last' = [op |-> "mark_read", via |-> "http", user |-> user,
                       notification_id |-> notification_id,
                       http_status |-> IF found = {} THEN 404
                                       ELSE IF ok THEN 200 ELSE 400]
    /\ frames' = NoFrames
    /\ published' = <<>>
    /\ UNCHANGED <<chatDB, clock, sockets, nextNotif, settings>>

\* views.mark_all_notifications_read: utils.mark_notifications_read names
\* timezone, which utils.py never imports, so the call raises before the
\* update is issued and the view answers 500
HttpMarkAllNotificationsRead(user) ==
    /\ UNCHANGED requests
    /\ last' = [op |-> "mark_all_read", via |-> "http", user |-> user,
                http_status |-> 500]
    /\ frames' = NoFrames
    /\ published' = <<>>
    /\ UNCHANGED <<chatDB, clock, sockets, notifDB>>

\* views.delete_notification
HttpDeleteNotification(user, notification_id) ==
    /\ LET found == OwnNotifications(notification_id, user)
       IN  /\ notifications' = notifications \ found
           /\ UNCHANGED requests
           /\ last' = [op |-> "delete_notification", user |-> user,
                       notification_id |-> notification_id,
                       http_status |-> IF found = {} THEN 404 ELSE 200]
    /\ frames' = NoFrames
    /\ published' = <<>>
    /\ UNCHANGED <<chatDB, clock, sockets, nextNotif, settings>>

\* views.clear_read_notifications
HttpClearReadNotifications(user) ==
    /\ LET gone == {n \in notifications : n.recipient = user /\ n.is_read}
       IN  /\ notifications' = notifications \ gone
           /\ UNCHANGED requests
           /\ last' = [op |-> "clear_read", user |-> user,
                       deleted_count |-> Cardinality(gone)]
    /\ frames' = NoFrames
    /\ published' = <<>>
    /\ UNCHANGED <<chatDB, clock, sockets, nextNotif, settings>>

\* ------------------------------------------- requests served side by side
\* a worker is free when it serves nothing or has answered its last request
Free(w) == requests[w].op \in {"none", "answered"}

\* the first part of ChatConsumer.mark_message_read / mark_message_delivered,
\* run in a worker thread by database_sync_to_async: the message is looked up,
\* it is not the user's own, and get_or_create hands the thread its own copy of
\* the MessageStatus row. A socket runs one handler at a time. (A lookup that
\* fails ends the handler in this very step: HandleMessageRead and
\* HandleMessageDelivered.)
LoadStatus(w, c, ref, method) ==
    /\ Free(w)
    /\ conns[c].kind = "chat" /\ conns[c].state = "open"
    /\ \A v \in Workers : requests[v].op = "mark" => requests[v].conn # c
    /\ LET user == conns[c].user
           m    == FindMessageForUser(ref, user)
       IN  /\ m # None
           /\ messages[m].sender # user
           /\ statuses' = statuses \cup {GetOrCreateStatus(m, user)}
           /\ requests' = [requests EXCEPT ![w] =
                             [op |-> "mark", method |-> method, conn |-> c,
                              user |-> user, message_id |-> ref,
                              row |-> GetOrCreateStatus(m, user)]]
           /\ last' = [op |-> "load_status", method |-> method, conn |-> c,
                       user |-> user, message_id |-> ref]
    /\ frames' = NoFrames
    /\ published' = <<>>
    /\ UNCHANGED <<chats, nextChat, messages, clock, sockets, notifDB>>

\* Model.save() of a MessageStatus object: every column of the row with the
\* object's key is overwritten with the object's values
SaveStatusRow(rows, row) ==
    {s \in rows : ~(s.message = row.message /\ s.user = row.user)} \cup {row}

\* the rest of the handler: mark_read / mark_delivered changes the thread's copy
\* and saves it when the copy's status lets it, the function returns True, and
\* the handler publishes the status event to the group of its chat
SaveStatus(w) ==
    /\ requests[w].op = "mark"
    /\ LET req   == requests[w]
           new   == IF req.method = "read" THEN MarkRead(req.row, clock)
                    ELSE MarkDelivered(req.row, clock)
           saved == new # req.row
           grp   == ChatGroup(conns[req.conn].chat_id)
           event == StatusEvent(req.message_id, req.method, req.user, clock)
       IN  /\ saved => clock <= MaxClock
           /\ statuses' = IF saved THEN SaveStatusRow(statuses, new) ELSE statuses
           /\ clock' = IF saved THEN clock + 1 ELSE clock
           /\ published' = <<[group |-> grp, event |-> event]>>
           /\ frames' = GroupSend(grp, event)
           /\ last' = [op |-> "save_status", method |-> req.method, conn |-> req.conn,
                       user |-> req.user, message_id |-> req.message_id,
                       saved |-> saved]
    /\ requests' = [requests EXCEPT ![w] = NoRequest]
    /\ UNCHANGED <<chats, nextChat, messages, sockets, notifDB>>

\* ChatListCreateAPIView.create for a direct chat, up to serializer.save(): the
\* request is valid and ChatCreateSerializer.create inserts the new chat with its
\* participants. (An invalid request ends in this very step: CreateChat.)
InsertChat(w, user, participant_ids) ==
    /\ Free(w)
    /\ ValidateParticipantIds(participant_ids)
    /\ ValidateChat(FALSE, participant_ids)
    /\ nextChat < MaxChats
    /\ nextChat' = nextChat + 1
    /\ chats' = chats \cup {SerializerCreate(nextChat + 1, user, FALSE, participant_ids)}
    /\ requests' = [requests EXCEPT ![w] =
                      [op |-> "create_chat", at |-> "inserted", user |-> user,
                       participant_ids |-> participant_ids, chat |-> nextChat + 1,
                       existing |-> None]]
    /\ last' = [op |-> "insert_chat", user |-> user,
                participant_ids |-> participant_ids, chat |-> nextChat + 1]
    /\ frames' = NoFrames
    /\ published' = <<>>
    /\ UNCHANGED <<messages, statuses, clock, sockets, notifDB>>

\* perform_create, the query for existing_chat: the first direct chat other than
\* the request's own that holds the requester and the other participant
LookupExistingChat(w) ==
    /\ requests[w].op = "create_chat" /\ requests[w].at = "inserted"
    /\ LET req   == requests[w]
           own   == CHOOSE ch \in chats : ch.id = req.chat
           found == {e.id : e \in ExistingDirectChats(req.user, own)}
       IN  \E e \in (IF found = {} THEN {None} ELSE found) :
              /\ requests' = [requests EXCEPT ![w] =
                                [req EXCEPT !.at = "looked_up", !.existing = e]]
              /\ last' = [op |-> "lookup_chat", user |-> req.user, chat |-> req.chat,
                          existing |-> e]
    /\ frames' = NoFrames
    /\ published' = <<>>
    /\ UNCHANGED <<chatDB, clock, sockets, notifDB>>

\* perform_create, the end: with an existing chat the request's own chat is
\* deleted and the existing one is returned, otherwise its own chat is returned;
\* create answers 201 with the returned chat
AnswerCreateChat(w) ==
    /\ requests[w].op = "create_chat" /\ requests[w].at = "looked_up"
    /\ LET req      == requests[w]
           returned == IF req.existing # None THEN req.existing ELSE req.chat
       IN  /\ chats' = IF req.existing # None
                       THEN {ch \in chats : ch.id # req.chat}
                       ELSE chats
           /\ requests' = [requests EXCEPT ![w] =
                             [op |-> "answered", user |-> req.user,
                              participant_ids |-> req.participant_ids,
                              chat |-> returned]]
           /\ last' = [op |-> "answer_create_chat", user |-> req.user,
                       participant_ids |-> req.participant_ids,
                       http_status |-> 201, chat |-> returned]
    /\ frames' = NoFrames
    /\ published' = <<>>
    /\ UNCHANGED <<nextChat, messages, statuses, clock, sockets, notifDB>>

\* ------------------------------------------------------------ initial rows
\* a direct chat of users 1 and 2 and a group chat of users 1, 2 and 3, both
\* as ChatListCreateAPIView.create leaves them
SeedChats ==
    {[id |-> 1, participants |-> {1, 2}, is_group_chat |-> FALSE, last_message |-> None],
     [id |-> 2, participants |-> {1, 2, 3}, is_group_chat |-> TRUE, last_message |-> None]}

\* one message already sent by user 2 in the direct chat and read by user 1 at
\* time 1; the clock then reads 2
SeedMessages ==
    <<[id |-> 1, chat |-> 1, sender |-> 2, content |-> <<"h", "i">>, reply_to |-> None,
       is_edited |-> FALSE, is_deleted |-> FALSE]>>
SeedStatuses ==
    {[message |-> 1, user |-> 1, status |-> "read", delivered_at |-> 1, read_at |-> 1]}
SeedChatRows ==
    {IF ch.id = 1 THEN [ch EXCEPT !.last_message = 1] ELSE ch : ch \in SeedChats}

InitConn ==
    /\ chats = SeedChatRows
    /\ nextChat = 2
    /\ messages = SeedMessages
    /\ statuses = SeedStatuses
    /\ clock = 2
    /\ conns = [c \in Conns |-> IdleConn]
    /\ groups = {}
    /\ notifications = {}
    /\ nextNotif = 0
    /\ settings = [u \in Users |-> DefaultSettings]
    /\ frames = NoFrames
    /\ published = <<>>
    /\ last = [op |-> "init"]
    /\ requests = NoRequests

NextConn ==
    \/ \E c \in Conns, chat_id \in UrlChatIds, token \in Tokens : Connect(c, chat_id, token)
    \/ \E c \in Conns : Disconnect(c)
    \/ \E c \in Conns : HandleChatMessage(c, <<"h", "i">>, [kind |-> "absent"])

SpecConn == InitConn /\ [][NextConn]_vars

\* chat and notification sockets come and go while users type and follow
\* each other
NextSockets ==
    \/ \E c \in Conns, chat_id \in ChatIds, token \in SocketTokens :
          Connect(c, chat_id, token)
    \/ \E c \in Conns, token \in SocketTokens : NotificationConnect(c, token)
    \/ \E c \in Conns : Disconnect(c)
    \/ \E c \in Conns : NotificationDisconnect(c)
    \/ \E c \in Conns, is_typing \in BOOLEAN : HandleTyping(c, is_typing)
    \/ \E follower \in Actors, following \in Actors :
          CreateFollowNotification(follower, following)

SpecSockets == InitConn /\ [][NextSockets]_vars

\* notification sockets come and go while users follow each other and read
\* their notifications
NextFeed ==
    \/ \E c \in Conns, token \in SocketTokens : NotificationConnect(c, token)
    \/ \E c \in Conns : NotificationDisconnect(c)
    \/ \E follower \in Actors, following \in Actors :
          CreateFollowNotification(follower, following)
    \/ \E c \in Conns : WsMarkAllRead(c)

SpecFeed == InitConn /\ [][NextFeed]_vars

\* sockets already accepted by Connect: channel 1 is user 1 in the direct chat,
\* every other channel a participant of the group chat
SeedConn(c) ==
    [kind |-> "chat", state |-> "open", chat_id |-> IF c = 1 THEN 1 ELSE 2,
     user |-> ((c - 1) % 3) + 1, close_code |-> None]

InitChat ==
    /\ chats = SeedChatRows
    /\ nextChat = 2
    /\ messages = SeedMessages
    /\ statuses = SeedStatuses
    /\ clock = 2
    /\ conns = [c \in Conns |-> SeedConn(c)]
    /\ groups = {<<ChatGroup(SeedConn(c).chat_id), c>> : c \in Conns}
    /\ notifications = {}
    /\ nextNotif = 0
    /\ settings = [u \in Users |-> DefaultSettings]
    /\ frames = NoFrames
    /\ published = <<>>
    /\ last = [op |-> "init"]
    /\ requests = NoRequests

\* frames of every shape on the accepted sockets; status frames here carry no
\* usable message id
BadRefs == {[kind |-> "absent"], [kind |-> "malformed"]}

NextFrames ==
    \/ \E c \in Conns, raw \in RawContents, ref \in MessageRefs : HandleChatMessage(c, raw, ref)
    \/ \E c \in Conns, ref \in BadRefs : HandleMessageRead(c, ref)
    \/ \E c \in Conns, ref \in BadRefs : HandleMessageDelivered(c, ref)
    \/ \E c \in Conns, is_typing \in BOOLEAN : HandleTyping(c, is_typing)
    \/ \E c \in Conns, frame \in InvalidFrames : ReceiveInvalid(c, frame)

SpecFrames == InitChat /\ [][NextFrames]_vars

\* message sends and status updates over the sockets and over HTTP
StoredRefs == {[kind |-> "uuid", id |-> i] : i \in 1..(Len(messages) + 1)}

NextStatus ==
    \/ \E c \in Conns : HandleChatMessage(c, <<"h", "i">>, [kind |-> "absent"])
    \/ \E c \in Conns, ref \in StoredRefs : HandleMessageRead(c, ref)
    \/ \E c \in Conns, ref \in StoredRefs : HandleMessageDelivered(c, ref)
    \/ \E u \in Users, id \in 1..(Len(messages) + 1), method \in {"read", "delivered"} :
          HttpMarkMessage(u, id, method)

SpecStatus == InitChat /\ [][NextStatus]_vars

\* the same recipient on every socket of chat 1, and the status row of message 1
\* as the signal made it, as a delivery left it, or missing
SameUserConn(c) ==
    [kind |-> "chat", state |-> "open", chat_id |-> 1, user |-> 1, close_code |-> None]

InitMarkRace ==
    /\ chats = SeedChatRows
    /\ nextChat = 2
    /\ messages = SeedMessages
    /\ statuses \in {{},
                     {[message |-> 1, user |-> 1, status |-> "sent",
                       delivered_at |-> None, read_at |-> None]},
                     {[message |-> 1, user |-> 1, status |-> "delivered",
                       delivered_at |-> 1, read_at |-> None]}}
    /\ clock = 2
    /\ conns = [c \in Conns |-> SameUserConn(c)]
    /\ groups = {<<ChatGroup(1), c>> : c \in Conns}
    /\ notifications = {}
    /\ nextNotif = 0
    /\ settings = [u \in Users |-> DefaultSettings]
    /\ frames = NoFrames
    /\ published = <<>>
    /\ last = [op |-> "init"]
    /\ requests = NoRequests

NextMarkRace ==
    \/ \E w \in Workers, c \in Conns, ref \in StoredRefs, method \in {"read", "delivered"} :
          LoadStatus(w, c, ref, method)
    \/ \E w \in Workers : SaveStatus(w)

SpecMarkRace == InitMarkRace /\ [][NextMarkRace]_vars

\* messages sent over the socket and over HTTP, edited and deleted
EditContents == {<<" ">>, <<"y", "o">>}

NextMessages ==
    \/ \E c \in Conns, ref \in MessageRefs : HandleChatMessage(c, <<"h", "i">>, ref)
    \/ \E u \in Users, chat_id \in UrlChatIds, raw \in RawContents, ref \in MessageRefs :
          HttpCreateMessage(u, chat_id, raw, ref)
    \/ \E u \in Users, id \in 1..(Len(messages) + 1), raw \in EditContents,
          ref \in MessageRefs : HttpEditMessage(u, id, raw, ref)
    \/ \E u \in Users, id \in 1..(Len(messages) + 1) : HttpDeleteMessage(u, id)

SpecMessages == InitChat /\ [][NextMessages]_vars

\* chat creation, leaving and participant management over HTTP, no socket open
NextChats ==
    \/ \E u \in Users, is_group_chat \in BOOLEAN, ids \in ParticipantIdLists :
          CreateChat(u, is_group_chat, ids)
    \/ \E u \in Users, chat_id \in UrlChatIds : LeaveChat(u, chat_id)
    \/ \E u \in Users, chat_id \in UrlChatIds, user_id \in Users \cup {GhostUser},
          method \in {"POST", "DELETE"} : ManageChatParticipant(u, chat_id, user_id, method)

\* the direct chat and its message; the group chat has been left by all of its
\* participants, which deleted it
InitChats ==
    /\ chats = {ch \in SeedChatRows : ~ch.is_group_chat}
    /\ nextChat = 2
    /\ messages = SeedMessages
    /\ statuses = SeedStatuses
    /\ clock = 2
    /\ conns = [c \in Conns |-> IdleConn]
    /\ groups = {}
    /\ notifications = {}
    /\ nextNotif = 0
    /\ settings = [u \in Users |-> DefaultSettings]
    /\ frames = NoFrames
    /\ published = <<>>
    /\ last = [op |-> "init"]
    /\ requests = NoRequests

SpecChats == InitChats /\ [][NextChats]_vars

\* requests for direct chats served by several workers at once
NextChatRace ==
    \/ \E w \in Workers, u \in Users, ids \in ParticipantIdLists : InsertChat(w, u, ids)
    \/ \E w \in Workers : LookupExistingChat(w)
    \/ \E w \in Workers : AnswerCreateChat(w)

\* before any chat was created
InitChatRace ==
    /\ chats = {}
    /\ nextChat = 0
    /\ messages = <<>>
    /\ statuses = {}
    /\ clock = 2
    /\ conns = [c \in Conns |-> IdleConn]
    /\ groups = {}
    /\ notifications = {}
    /\ nextNotif = 0
    /\ settings = [u \in Users |-> DefaultSettings]
    /\ frames = NoFrames
    /\ published = <<>>
    /\ last = [op |-> "init"]
    /\ requests = NoRequests

SpecChatRace == InitChatRace /\ [][NextChatRace]_vars

\* the preferences a NotificationSettings row is seeded with: everything on, one
\* type off, or everything off
SettingsPayloads ==
    {DefaultSettings,
     [DefaultSettings EXCEPT !.likes_enabled = FALSE],
     [DefaultSettings EXCEPT !.comments_enabled = FALSE],
     [DefaultSettings EXCEPT !.follows_enabled = FALSE],
     [DefaultSettings EXCEPT !.mentions_enabled = FALSE],
     [DefaultSettings EXCEPT !.messages_enabled = FALSE],
     [likes_enabled |-> FALSE, comments_enabled |-> FALSE, follows_enabled |-> FALSE,
      mentions_enabled |-> FALSE, messages_enabled |-> FALSE]}

\* user 1 has edited their preferences and listens on their notification
\* socket, as NotificationConsumer.connect leaves it
InitNotif ==
    /\ chats = SeedChatRows
    /\ nextChat = 2
    /\ messages = SeedMessages
    /\ statuses = SeedStatuses
    /\ clock = 2
    /\ conns = [c \in Conns |->
                  IF c = 1 THEN [kind |-> "notifications", state |-> "open",
                                 chat_id |-> None, user |-> 1, close_code |-> None]
                  ELSE IdleConn]
    /\ groups = {<<NotificationGroup(1), 1>>}
    /\ notifications = {}
    /\ nextNotif = 0
    /\ settings \in {[u \in Users |-> IF u = 1 THEN f ELSE DefaultSettings]
                        : f \in SettingsPayloads}
    /\ frames = NoFrames
    /\ published = <<>>
    /\ last = [op |-> "init"]
    /\ requests = NoRequests

\* comments with no mention, with the name of one user after an @, or with
\* a name no user has
Mentions == {<<>>} \cup {<<Username(u)>> : u \in Users} \cup {<< <<"z">> >>}

NextNotif ==
    \/ \E recipient \in Actors, t \in NotificationTypes, sender \in Actors \cup {None},
          content \in {"none", "uuid"} :
          CallCreateNotification(recipient, t, sender, content)
    \/ \E liker \in Actors, post_author \in Actors :
          CreateLikeNotification(liker, post_author)
    \/ \E follower \in Actors, following \in Actors :
          CreateFollowNotification(follower, following)
    \/ \E commenter \in Actors, post_author \in Actors, mentions \in Mentions :
          CreateCommentNotification(commenter, post_author, mentions)
    \/ \E id \in MessageIds : CreateMessageNotification(id)

SpecNotif == InitNotif /\ [][NextNotif]_vars

\* create_notification while the channel layer works or fails in each way
NextPublish ==
    \E recipient \in Actors, t \in NotificationTypes, sender \in Actors \cup {None},
       fault \in PublishFaults \cup {"ok"} :
       CallCreateNotificationUnderFault(recipient, t, sender, fault)

SpecPublish == InitNotif /\ [][NextPublish]_vars

\* every user listens on their own notification socket and nobody has
\* edited their preferences
InitInbox ==
    /\ chats = SeedChatRows
    /\ nextChat = 2
    /\ messages = SeedMessages
    /\ statuses = SeedStatuses
    /\ clock = 2
    /\ conns = [c \in Conns |->
                  [kind |-> "notifications", state |-> "open", chat_id |-> None,
                   user |-> ((c - 1) % NumUsers) + 1, close_code |-> None]]
    /\ groups = {<<NotificationGroup(((c - 1) % NumUsers) + 1), c>> : c \in Conns}
    /\ notifications = {}
    /\ nextNotif = 0
    /\ settings = [u \in Users |-> DefaultSettings]
    /\ frames = NoFrames
    /\ published = <<>>
    /\ last = [op |-> "init"]
    /\ requests = NoRequests

\* the ids a client can name: none, a stored one, or one never given out
NotificationRefs == 0..(nextNotif + 1)

NextInbox ==
    \/ \E liker \in Actors, post_author \in Actors :
          CreateLikeNotification(liker, post_author)
    \/ \E follower \in Actors, following \in Actors :
          CreateFollowNotification(follower, following)
    \/ \E c \in Conns, id \in NotificationRefs : WsMarkRead(c, id)
    \/ \E c \in Conns : WsMarkAllRead(c)
    \/ \E c \in Conns : WsGetUnreadCount(c)
    \/ \E user \in Actors : HttpUnreadCount(user)
    \/ \E user \in Actors, id \in NotificationRefs \ {None} :
          HttpMarkNotificationRead(user, id)
    \/ \E user \in Actors : HttpMarkAllNotificationsRead(user)
    \/ \E user \in Actors, id \in NotificationRefs \ {None} :
          HttpDeleteNotification(user, id)
    \/ \E user \in Actors : HttpClearReadNotifications(user)

SpecInbox == InitInbox /\ [][NextInbox]_vars

\* ------------------------------------------------------------------ claims
FramesOfType(c, t) == {i \in 1..Len(frames[c]) : frames[c][i].type = t}
InSomeGroup(c) == \E pair \in groups : pair[2] = c

\* C1: every chat_message frame with non-empty content sent on an accepted
\* connection whose user is a participant persists exactly one Message of that
\* chat and sender, creates exactly one 'sent' MessageStatus row for each other
\* participant and none for the sender, and delivers exactly one new_message
\* frame to every connection joined to the chat's group and none to any other.
C1_SendPersistsAndBroadcasts ==
    [][(/\ last'.op = "chat_message"
        /\ Strip(last'.content) # <<>>
        /\ last'.user \in Participants(last'.chat_id))
       => (/\ Len(messages') = Len(messages) + 1
           /\ messages'[Len(messages')].chat = last'.chat_id
           /\ messages'[Len(messages')].sender = last'.user
           /\ statuses \subseteq statuses'
           /\ statuses' \ statuses =
                 {[message |-> Len(messages'), user |-> p, status |-> "sent",
                   delivered_at |-> None, read_at |-> None]
                     : p \in Participants(last'.chat_id) \ {last'.user}}
           /\ \A c \in Conns :
                 Cardinality({i \in 1..Len(frames'[c]) : frames'[c][i].type = "new_message"})
                   = IF <<ChatGroup(last'.chat_id), c>> \in groups THEN 1 ELSE 0)]_vars

\* a token get_user_from_token resolves to no user
TokenFailsAuth(token) ==
    token.kind \in {"none", "invalid"} \/ token.user_id \notin Users \cup {InactiveUser}

\* C2: a chat connection attempt that fails authentication (no token, invalid
\* token, unknown user) is closed with 4001, one whose user is not a participant
\* of the target chat with 4003; such a connection is not accepted, is in no
\* group and receives no frame.
C2_RejectedConnectNeverJoins ==
    /\ last.op = "connect" =>
          LET c == last.conn IN
          /\ TokenFailsAuth(last.token) =>
                conns[c].state = "rejected" /\ conns[c].close_code = 4001
          /\ (~TokenFailsAuth(last.token)
                /\ last.token.user_id \notin Participants(last.chat_id)) =>
                conns[c].state = "rejected" /\ conns[c].close_code = 4003
    /\ \A c \in Conns :
          conns[c].state = "rejected" =>
             /\ conns[c].close_code \in {4001, 4003}
             /\ ~InSomeGroup(c)
             /\ frames[c] = <<>>

\* a forbidden connection exists while a message is broadcast in the chat it asked for
C2_Witness ==
    \E c, d \in Conns :
        /\ conns[c].state = "rejected" /\ conns[c].close_code = 4003
        /\ conns[d].state = "open" /\ conns[d].chat_id = conns[c].chat_id
        /\ FramesOfType(d, "new_message") # {}

MarkOps == {"message_read", "message_delivered"}
SameRow(s, t) == s.message = t.message /\ s.user = t.user
Rank(status) == CASE status = "sent" -> 1 [] status = "delivered" -> 2 [] status = "read" -> 3

\* C3: in every state no MessageStatus row belongs to the sender of its message,
\* and a message_read / message_delivered request of user u (socket or HTTP)
\* creates or changes only rows whose user is u.
C3_OnlyOwnRowsNeverSender ==
    /\ [](\A s \in statuses :
            s.message \in MessageIds /\ s.user # messages[s.message].sender)
    /\ [][last'.op \in MarkOps =>
            /\ \A t \in statuses' \ statuses : t.user = last'.user
            /\ \A s \in statuses \ statuses' : s.user = last'.user]_vars

\* the sender of a message asked to mark it and was refused, while a recipient of
\* the same message has marked their own row
C3_Witness ==
    /\ last.op \in MarkOps /\ last.message_id.kind = "uuid" /\ ~last.ok
    /\ last.message_id.id \in MessageIds
    /\ messages[last.message_id.id].sender = last.user
    /\ \E s \in statuses :
          s.message = last.message_id.id /\ s.status # "sent" /\ s.read_at # 1

\* C4: the status of a row never moves backwards along sent -> delivered -> read,
\* whatever mark_delivered and mark_read calls reach it.
C4_StatusOnlyMovesForward ==
    [][\A s \in statuses :
          \E t \in statuses' : SameRow(s, t) /\ Rank(t.status) >= Rank(s.status)]_vars

\* mark_delivered was called on a row that was already read, and the row is read
C4_Witness ==
    /\ last.op = "message_delivered" /\ last.ok /\ last.prior = "read"
    /\ StatusOf(last.message_id.id, last.user).status = "read"

\* the timestamps a row may carry in each status
RowWellFormed(s) ==
    /\ s.status = "sent" => s.delivered_at = None /\ s.read_at = None
    /\ s.status = "delivered" => s.delivered_at # None /\ s.read_at = None
    /\ s.status = "read" => s.delivered_at # None /\ s.read_at # None

\* C5: a 'sent' row has neither timestamp, a 'delivered' row has delivered_at and
\* no read_at, a 'read' row has both; a row that goes to 'read' without having
\* been 'delivered' gets delivered_at equal to read_at.
C5_RowTimestampsMatchStatus ==
    /\ [](\A s \in statuses : RowWellFormed(s))
    /\ [][\A t \in statuses' :
            (/\ t.status = "read"
             /\ \A s \in statuses : SameRow(s, t) => s.status = "sent")
               => t.delivered_at = t.read_at]_vars

\* a row was just marked read straight from 'sent' and both timestamps are the
\* time of that call
C5_Witness ==
    /\ last.op = "message_read" /\ last.ok /\ last.prior = "sent"
    /\ LET row == StatusOf(last.message_id.id, last.user)
       IN  row.status = "read" /\ row.read_at = clock - 1 /\ row.delivered_at = row.read_at

\* C6: a message_read request on a row that is already read reports success and
\* leaves the whole table as it was, and a timestamp once set on a row is never
\* changed by a later request.
C6_MarkReadIdempotent ==
    /\ [][(last'.op = "message_read" /\ last'.prior = "read") =>
            /\ last'.ok
            /\ statuses' = statuses
            /\ \A c \in Conns :
                  \A i \in 1..Len(frames'[c]) : frames'[c][i].type # "error"]_vars
    /\ [][\A s \in statuses, t \in statuses' :
            SameRow(s, t) =>
               /\ s.delivered_at # None => t.delivered_at = s.delivered_at
               /\ s.read_at # None => t.read_at = s.read_at]_vars

\* a recipient marked a message read at some time and has now asked again
C6_Witness ==
    /\ last.op = "message_read" /\ last.ok /\ last.prior = "read"
    /\ StatusOf(last.message_id.id, last.user).read_at > 1

DirectChatsBetween(rows, a, b) ==
    {ch \in rows : ~ch.is_group_chat /\ ch.participants = {a, b}}

\* C7: when user A asks for a direct chat with another user B while a direct chat
\* of exactly A and B exists, the request returns that chat and leaves the chat
\* table as it was, so exactly one direct chat of A and B remains.
C7_DuplicateDirectChatReturnsExisting ==
    [][\A a \in Users, b \in Users :
          (/\ a # b
           /\ last'.op = "create_chat" /\ last'.http_status = 201
           /\ last'.user = a /\ ~last'.is_group_chat /\ last'.participant_ids = <<b>>
           /\ DirectChatsBetween(chats, a, b) # {})
          => /\ last'.chat \in {ch.id : ch \in DirectChatsBetween(chats, a, b)}
             /\ chats' = chats
             /\ Cardinality(DirectChatsBetween(chats', a, b)) = 1]_vars

\* a request for a direct chat with another user was answered with a chat older
\* than the row the request inserted
C7_Witness ==
    /\ last.op = "create_chat" /\ last.http_status = 201 /\ ~last.is_group_chat
    /\ last.participant_ids # <<last.user>>
    /\ last.chat < nextChat
    /\ Cardinality(DirectChatsBetween(chats, last.user, last.participant_ids[1])) = 1

\* C8: every chat that is not a group chat has exactly 2 participants.
C8_DirectChatHasTwoParticipants ==
    \A ch \in chats : ~ch.is_group_chat => Cardinality(ch.participants) = 2

NotifyOps == {"create_notification", "create_like_notification",
              "create_follow_notification", "create_comment_notification",
              "create_message_notification"}
CallsOf(request) == IF request.op \in NotifyOps THEN request.calls ELSE <<>>

\* C9: no stored Notification has its sender as recipient, and a
\* create_notification call whose sender is the recipient returns nothing; a
\* handler that makes only such calls leaves the table as it was and publishes
\* nothing.
C9_NoSelfNotification ==
    /\ [](\A n \in notifications : n.sender # n.recipient)
    /\ [][LET calls == CallsOf(last')
              self  == {i \in 1..Len(calls) : calls[i].sender = calls[i].recipient}
          IN  /\ \A i \in self : calls[i].result = None
              /\ (calls # <<>> /\ self = 1..Len(calls)) =>
                    /\ notifications' = notifications
                    /\ published' = <<>>
                    /\ frames' = NoFrames]_vars

\* a user with the like preference on liked their own post: nothing was returned
\* and the table is empty
C9_Witness ==
    /\ last.op = "create_like_notification"
    /\ last.calls[1].sender = last.calls[1].recipient
    /\ settings[last.calls[1].recipient].likes_enabled
    /\ last.calls[1].result = None
    /\ notifications = {}

\* C10: a create_notification call returns a record exactly when the recipient's
\* preference for its type is on (always for 'system') and the sender is not the
\* recipient; a handler whose calls are all turned away leaves the table as it
\* was and publishes nothing.
C10_CreatedIffPreferenceEnabled ==
    [][LET calls == CallsOf(last')
           pass(i) == /\ ShouldSendNotification(settings[calls[i].recipient],
                                                calls[i].notification_type)
                      /\ calls[i].sender # calls[i].recipient
       IN  /\ \A i \in 1..Len(calls) : (calls[i].result # None) <=> pass(i)
           /\ (calls # <<>> /\ \A i \in 1..Len(calls) : ~pass(i)) =>
                 /\ notifications' = notifications
                 /\ published' = <<>>]_vars

\* C11: when publishing to the recipient's notification group fails after the
\* Notification row was written (no channel layer, the serializer or a
\* group_send raising), the row stays in the table and create_notification
\* returns that record; the call ends normally and at most the events sent
\* before the failure were published.
C11_PublishFailureKeepsNotification ==
    [][LET calls == CallsOf(last')
       IN  \A i \in 1..Len(calls) :
              (/\ calls[i].publish \in PublishFaults
               /\ ShouldSendNotification(settings[calls[i].recipient],
                                         calls[i].notification_type)
               /\ calls[i].sender # calls[i].recipient
               /\ ~InsertRaises(calls[i].content))
              => /\ calls[i].result # None
                 /\ \E n \in notifications' \ notifications :
                       /\ n.id = calls[i].result
                       /\ n.recipient = calls[i].recipient
                       /\ n.notification_type = calls[i].notification_type
                       /\ ~n.is_read
                 /\ Len(published') <= 1
                 /\ \A k \in 1..Len(published') :
                       published'[k].event.type = "notification_created"]_vars

\* the first group_send raised while user 1 listened: the record was returned
\* and is stored, and nothing reached the socket
C11_Witness ==
    /\ last.op = "create_notification"
    /\ last.calls[1].publish = "first_send"
    /\ last.calls[1].recipient = 1
    /\ last.calls[1].result # None
    /\ \E n \in notifications : n.id = last.calls[1].result /\ n.recipient = 1
    /\ published = <<>>
    /\ frames = NoFrames

\* C12: whatever notifications were created, marked read one by one or all
\* at once, deleted or cleared, the count get_unread_count gives a user (in
\* the unread_count frame on their socket or through the helper) is the
\* number of stored notifications addressed to that user with is_read false.
C12_UnreadCountMatchesRows ==
    [][(last'.op = "get_unread_count") =>
          LET unread == {n \in notifications' :
                           n.recipient = last'.user /\ n.is_read = FALSE}
          IN  IF last'.via = "ws"
              THEN \E c \in Conns :
                     /\ conns'[c].user = last'.user
                     /\ Len(frames'[c]) = 1
                     /\ frames'[c][1].type = "unread_count"
                     /\ frames'[c][1].count = Cardinality(unread)
              ELSE last'.unread_count = Cardinality(unread)]_vars

\* user 1 asks on the socket after their only notification was marked read:
\* the row is still stored and the count is 0
C12_Witness ==
    /\ last.op = "get_unread_count" /\ last.via = "ws" /\ last.user = 1
    /\ \E n \in notifications : n.recipient = 1 /\ n.is_read
    /\ \E c \in Conns : frames[c] = <<[type |-> "unread_count", count |-> 0]>>

\* the groups channel c is in
GroupsOf(c) == {pair[1] : pair \in {q \in groups : q[2] = c}}

InvalidRequest(request) ==
    \/ request.op = "receive"
    \/ request.op = "chat_message" /\ \A i \in 1..Len(request.content) :
                                         request.content[i] = " "
    \/ /\ request.op \in MarkOps /\ request.via = "ws"
       /\ request.message_id.kind = "absent"

\* C14: a chat frame that is no JSON, has an unknown or no type, is a
\* message_read or message_delivered without message_id, or is a chat_message
\* whose content is empty or only spaces, puts exactly one error frame on the
\* sending socket and none on any other, publishes nothing, changes no chat,
\* message or status row, and leaves every socket open and in its group.
C14_InvalidFrameOnlyAnswersSender ==
    [][InvalidRequest(last') =>
          /\ Len(frames'[last'.conn]) = 1
          /\ frames'[last'.conn][1].type = "error"
          /\ \A d \in Conns \ {last'.conn} : frames'[d] = <<>>
          /\ published' = <<>>
          /\ UNCHANGED <<chatDB, sockets>>
          /\ conns'[last'.conn].state = "open"]_vars

\* a chat_message of one space was answered with the error frame while the
\* other socket stays open
C14_Witness ==
    /\ last.op = "chat_message" /\ last.content = <<" ">>
    /\ frames[last.conn] = <<ErrorFrame("Message content cannot be empty")>>
    /\ conns[last.conn].state = "open"
    /\ published = <<>>
    /\ \E d \in Conns \ {last.conn} : conns[d].state = "open" /\ frames[d] = <<>>

\* a socket status frame that names a message the requester sent or a message
\* that does not exist
OwnOrMissing(request) ==
    /\ request.op \in MarkOps /\ request.via = "ws"
    /\ request.message_id.kind = "uuid"
    /\ \/ request.message_id.id \notin MessageIds
       \/ messages[request.message_id.id].sender = request.user

\* C15: a message_read or a message_delivered frame that names a message the
\* requester sent, or no stored message, is answered with one error frame on
\* the requesting socket and none elsewhere, creates and changes no
\* MessageStatus row and publishes no status event.
C15_OwnOrMissingMessageRejected ==
    [][OwnOrMissing(last') =>
          /\ Len(frames'[last'.conn]) = 1
          /\ frames'[last'.conn][1].type = "error"
          /\ \A d \in Conns \ {last'.conn} : frames'[d] = <<>>
          /\ statuses' = statuses
          /\ published' = <<>>]_vars

\* a socket status frame that names a stored message of another chat than the
\* one the socket is bound to
OtherChatMessage(request) ==
    /\ request.op \in MarkOps /\ request.via = "ws"
    /\ request.message_id.kind = "uuid"
    /\ request.message_id.id \in MessageIds
    /\ messages[request.message_id.id].chat # conns[request.conn].chat_id

\* C16: a message_read or message_delivered frame on a socket bound to chat C
\* that names a message of another chat, even one the requester takes part
\* in, is treated as not found: no MessageStatus row is created or changed
\* and no status event is published to C's group.
C16_StatusFrameStaysInOwnChat ==
    [][OtherChatMessage(last') =>
          /\ ~last'.ok
          /\ statuses' = statuses
          /\ published' = <<>>
          /\ \A d \in Conns : FramesOfType(d, "message_status")' = {}]_vars

\* C17: a chat or notification connection whose token is well-formed and
\* valid but belongs to a user who is not active is closed at connect with
\* the unauthenticated code 4001, as if it had no token, and is in no group.
C17_InactiveUserRejected ==
    (/\ last.op \in {"connect", "notification_connect"}
     /\ last.token = [kind |-> "valid", user_id |-> InactiveUser])
    => /\ conns[last.conn].state = "rejected"
       /\ conns[last.conn].close_code = CloseUnauthorized
       /\ GroupsOf(last.conn) = {}

\* a chat_message frame with content and a reply_to
ReplyRequest(request) ==
    /\ request.op = "chat_message"
    /\ \E i \in 1..Len(request.content) : request.content[i] # " "
    /\ request.reply_to.kind # "absent"

\* the reply_to of the frame names a stored message of the socket's chat
SameChatReply(request) ==
    /\ request.reply_to.kind = "uuid"
    /\ request.reply_to.id \in MessageIds
    /\ messages[request.reply_to.id].chat = request.chat_id

\* C18: a chat_message with content whose reply_to names no message of the
\* same chat (an unknown id, a message of another chat, or a value that is no
\* id at all) is stored with no reply_to and broadcast, and the sender gets
\* no error frame; when reply_to names a message of the same chat, the stored
\* message references it.
C18_BadReplyToIsDropped ==
    [][ReplyRequest(last') =>
          /\ Len(messages') = Len(messages) + 1
          /\ IF SameChatReply(last')
             THEN messages'[Len(messages')].reply_to = last'.reply_to.id
             ELSE /\ messages'[Len(messages')].reply_to = None
                  /\ \E k \in 1..Len(published') :
                        published'[k].event.type = "chat_message_broadcast"
                  /\ \A i \in 1..Len(frames'[last'.conn]) :
                        frames'[last'.conn][i].type # "error"]_vars

TypingOps == {"typing_start", "typing_stop"}

\* C19: a typing_start (typing_stop) frame of user u on a socket of chat C
\* puts one typing_indicator frame with u's id, u's username and is_typing
\* true (false) on every socket in C's group whose user is not u, no frame on
\* the originating socket or any other socket, and changes no chat, message
\* or status row.
C19_TypingReachesOthersOnly ==
    [][last'.op \in TypingOps =>
          LET u   == last'.user
              grp == ChatGroup(conns[last'.conn].chat_id)
          IN  /\ \A d \in Conns :
                    frames'[d] =
                       IF <<grp, d>> \in groups /\ conns[d].user # u
                       THEN <<[type |-> "typing_indicator", user_id |-> u,
                               username |-> Username(u),
                               is_typing |-> (last'.op = "typing_start")]>>
                       ELSE <<>>
              /\ frames'[last'.conn] = <<>>
              /\ UNCHANGED chatDB]_vars

\* user u started typing while another participant was connected to the same
\* chat: that socket holds the indicator, the typing socket holds nothing
C19_Witness ==
    /\ last.op = "typing_start"
    /\ frames[last.conn] = <<>>
    /\ \E d \in Conns \ {last.conn} :
          /\ conns[d].chat_id = conns[last.conn].chat_id
          /\ conns[d].user # last.user
          /\ frames[d] = <<[type |-> "typing_indicator", user_id |-> last.user,
                            username |-> Username(last.user), is_typing |-> TRUE]>>

\* C20: every new_message event published names a message that is stored by
\* then, together with a MessageStatus row for each participant other than
\* its sender; when a chat_message with content is not stored, nothing is
\* published, the sender gets one error frame, no other socket gets a frame,
\* and the sender's socket stays open and in its group.
C20_BroadcastOnlyAfterPersist ==
    [][/\ \A k \in 1..Len(published') :
            published'[k].event.type = "chat_message_broadcast" =>
               LET id == published'[k].event.message_data.id
               IN  /\ id \in 1..Len(messages')
                   /\ \A u \in Participants(messages'[id].chat) \ {messages'[id].sender} :
                         \E row \in statuses' : row.message = id /\ row.user = u
       /\ (/\ last'.op = "chat_message"
           /\ \E i \in 1..Len(last'.content) : last'.content[i] # " "
           /\ messages' = messages)
          => /\ published' = <<>>
             /\ Len(frames'[last'.conn]) = 1
             /\ frames'[last'.conn][1].type = "error"
             /\ \A d \in Conns \ {last'.conn} : frames'[d] = <<>>
             /\ conns'[last'.conn].state = "open"
             /\ <<ChatGroup(last'.chat_id), last'.conn>> \in groups']_vars

\* storing a message with content failed on its reply_to: the sender holds
\* the error frame, nothing was published and the socket is still open
C20_Witness ==
    /\ last.op = "chat_message"
    /\ last.content = <<" ", "h", "i">>
    /\ last.reply_to.kind = "malformed"
    /\ frames[last.conn] = <<ErrorFrame("Error sending message")>>
    /\ published = <<>>
    /\ conns[last.conn].state = "open"
    /\ <<ChatGroup(last.chat_id), last.conn>> \in groups

\* C21: a mark_read frame on the notification socket that names a
\* notification of the requester which is already read is answered with the
\* mark_read_success frame, not with an error frame, and leaves the
\* notification as it was.
C21_MarkReadAgainSucceeds ==
    [][(/\ last'.op = "mark_read" /\ last'.via = "ws"
        /\ \E n \in notifications :
              /\ n.id = last'.notification_id
              /\ n.recipient = last'.user
              /\ n.is_read)
       => /\ notifications' = notifications
          /\ \E c \in Conns :
                /\ conns[c].user = last'.user
                /\ Len(frames'[c]) = 1
                /\ frames'[c][1].type = "mark_read_success"
          /\ \A c \in Conns : \A i \in 1..Len(frames'[c]) :
                frames'[c][i].type # "error"]_vars

\* the calls of a request that stored a notification while the channel layer
\* worked, in call order
Persisted(request) ==
    SelectSeq(CallsOf(request), LAMBDA call : call.result # None /\ call.publish = "ok")

\* C22: every create_notification call that stores a notification for
\* recipient r publishes a notification_created and then an
\* unread_count_updated event, both to r's notification group and to no
\* other; the count is the number of r's unread notifications when it was
\* computed; every socket in r's group gets the new_notification frame
\* followed by the unread_count_updated frame, and a socket of another user
\* gets neither.
C22_CreationPublishesToRecipient ==
    [][LET done == Persisted(last')
       IN  (done # <<>>) =>
           /\ Len(published') = 2 * Len(done)
           /\ \A k \in 1..Len(done) :
                 LET r      == done[k].recipient
                     first  == published'[2 * k - 1]
                     second == published'[2 * k]
                     unread == {n \in notifications' :
                                  n.recipient = r /\ ~n.is_read /\ n.id <= done[k].result}
                 IN  /\ first.group = NotificationGroup(r)
                     /\ first.event.type = "notification_created"
                     /\ first.event.notification_data.id = done[k].result
                     /\ second.group = NotificationGroup(r)
                     /\ second.event.type = "unread_count_updated"
                     /\ second.event.count = Cardinality(unread)
           /\ \A c \in Conns :
                 LET mine == SelectSeq(done, LAMBDA call :
                                <<NotificationGroup(call.recipient), c>> \in groups)
                 IN  /\ Len(frames'[c]) = 2 * Len(mine)
                     /\ \A k \in 1..Len(mine) :
                           /\ conns[c].user = mine[k].recipient
                           /\ frames'[c][2 * k - 1].type = "new_notification"
                           /\ frames'[c][2 * k - 1].notification.id = mine[k].result
                           /\ frames'[c][2 * k].type = "unread_count_updated"]_vars

\* user 1 was followed while listening on two notification sockets: both hold
\* the new_notification frame followed by the count
C22_Witness ==
    /\ last.op = "create_follow_notification"
    /\ last.calls[1].recipient = 1 /\ last.calls[1].result # None
    /\ \A c \in Conns :
          /\ conns[c].kind = "notifications" /\ conns[c].user = 1
          /\ Len(frames[c]) = 2
          /\ frames[c][1].type = "new_notification"
          /\ frames[c][2] = [type |-> "unread_count_updated", count |-> 1]

\* C23: when A comments on a post of B, A is not B and every preference is
\* on, B gets exactly one 'comment' notification; every @username in the
\* comment that is the username of a user C other than A gives C a 'mention'
\* notification from A; an @username no user has, or A's own, creates
\* nothing, and the handler ends normally either way.
C23_CommentAndMentionNotifications ==
    [][(/\ last'.op = "create_comment_notification"
        /\ last'.calls[1].sender # last'.calls[1].recipient
        /\ \A u \in Users : settings[u] = DefaultSettings)
       => LET A       == last'.calls[1].sender
              B       == last'.calls[1].recipient
              new     == notifications' \ notifications
              named   == {i \in 1..Len(last'.mentions) :
                            /\ UserByUsername(last'.mentions[i]) # None
                            /\ UserByUsername(last'.mentions[i]) # A}
          IN  /\ Cardinality({n \in new : n.recipient = B
                                 /\ n.notification_type = "comment"
                                 /\ n.sender = A}) = 1
              /\ \A i \in named :
                    \E n \in new : /\ n.recipient = UserByUsername(last'.mentions[i])
                                   /\ n.notification_type = "mention"
                                   /\ n.sender = A
              /\ Cardinality({n \in new : n.notification_type = "mention"})
                    = Cardinality(named)]_vars

\* the messages of a chat that are stored and not soft-deleted
LiveMessages(chat_id) ==
    {i \in MessageIds : messages[i].chat = chat_id /\ ~messages[i].is_deleted}

\* C24: the last_message of every chat is the most recently created message
\* of that chat that is not soft-deleted, and empty when the chat has none.
C24_LastMessageIsNewestLive ==
    \A ch \in chats :
        ch.last_message =
           IF LiveMessages(ch.id) = {} THEN None
           ELSE CHOOSE i \in LiveMessages(ch.id) : \A k \in LiveMessages(ch.id) : k <= i

\* C25: when the sender of a message edits it with content c, the stored
\* message then has content c and is_edited true, and its sender and chat are
\* as before; when another user attempts the edit, the stored message is as
\* before.
C25_EditBySenderOnly ==
    [][(last'.op = "http_edit_message" /\ last'.http_status = 200) =>
          LET before == messages[last'.message]
              after  == messages'[last'.message]
          IN  IF before.sender = last'.user
              THEN /\ after.content = last'.content
                   /\ after.is_edited
                   /\ after.sender = before.sender
                   /\ after.chat = before.chat
              ELSE after = before]_vars

\* C26: every stored message that has a reply_to references a message of its
\* own chat, whether it came over the socket, was created over HTTP or was
\* edited over HTTP.
C26_ReplyToStaysInChat ==
    \A i \in MessageIds :
        (messages[i].chat # None /\ messages[i].reply_to # None) =>
           messages[messages[i].reply_to].chat = messages[i].chat

\* C27: when the same recipient's mark_delivered and mark_read for one message
\* are served side by side, each loading the MessageStatus row, changing its copy
\* and saving it, no step takes a stored 'read' row back to another status or
\* changes or erases its read_at.
C27_ReadIsNeverTakenBack ==
    [][\A s \in statuses : s.status = "read" =>
          \E t \in statuses' : /\ t.message = s.message /\ t.user = s.user
                               /\ t.status = "read" /\ t.read_at = s.read_at]_vars

\* the users a request for a direct chat is about: the requester and the
\* participant it names
PairOf(req) == {req.user} \cup SeqToSet(req.participant_ids)

\* C28: when two requests for a direct chat of the same two users A and B are
\* served side by side (each inserting its chat, looking for another direct chat
\* of A and B, and deleting its own when it found one), then once both are
\* answered exactly one direct chat of A and B exists and each request was
\* answered with a chat that is still stored.
C28_ConcurrentCreatesLeaveOneChat ==
    \A a \in Users, b \in Users, v \in Workers, w \in Workers :
        (/\ a # b /\ v # w
         /\ \A x \in Workers : requests[x].op # "create_chat"
         /\ requests[v].op = "answered" /\ PairOf(requests[v]) = {a, b}
         /\ requests[w].op = "answered" /\ PairOf(requests[w]) = {a, b})
        => /\ Cardinality(DirectChatsBetween(chats, a, b)) = 1
           /\ requests[v].chat \in {ch.id : ch \in chats}
           /\ requests[w].chat \in {ch.id : ch \in chats}

\* C29: every message_status event a handler publishes for message m, user u and
\* status s tells what is stored: when it is published the MessageStatus row
\* (m, u) has status s; a message_delivered frame for a row that is 'read'
\* publishes no event with status 'delivered'.
C29_StatusEventTellsStoredStatus ==
    [][\A i \in 1..Len(published') :
          published'[i].event.type = "message_status_update" =>
             \E s \in statuses' : /\ s.message = published'[i].event.message_id
                                  /\ s.user = published'[i].event.user_id
                                  /\ s.status = published'[i].event.status]_vars

\* C30: a mark-all-read by user u, over the socket or over HTTP, makes every
\* unread notification of u read, reports the number of notifications it
\* changed, leaves the notifications of every other user as they were, and
\* leaves u with an unread count of 0.
C30_MarkAllReadClearsInbox ==
    [][last'.op = "mark_all_read" =>
          LET u      == last'.user
              unread == {n \in notifications : n.recipient = u /\ ~n.is_read}
          IN  /\ notifications' =
                    (notifications \ unread) \cup {[n EXCEPT !.is_read = TRUE] : n \in unread}
              /\ "updated_count" \in DOMAIN last'
              /\ last'.updated_count = Cardinality(unread)
              /\ UnreadCount(notifications', u) = 0]_vars

====
